---- MODULE Spec2Model ----
(***************************************************************************)
(* Model of the libsonare homepage's analysis binding layer:               *)
(*   - the process-wide WASM module state and its init() lifecycle         *)
(*     (src/src/wasm/index.js),                                            *)
(*   - the StreamAnalyzer wrapper class (src/src/wasm/index.js) over the   *)
(*     prebuilt native streaming engine,                                   *)
(*   - the useStreamAnalyzer composable                                    *)
(*     (src/src/composables/useStreamAnalyzer.ts).                         *)
(***************************************************************************)
EXTENDS Integers, Sequences, FiniteSets, TLC

VARIABLES
    \* ---- module state of src/src/wasm/index.js ----
    module,        \* 0 = null, n > 0 = the module made by the n-th createModule call
    initPromise,   \* 0 = null, i > 0 = index into promises of the stored promise
    promises,      \* the async IIFEs started by init(): each one's position
    factoryCalls,  \* how many times createModule(options) was invoked
    callers,       \* the callers of init(): what each one is waiting for / got
    initCalls,     \* number of init() calls issued so far
    lastCall,      \* outcome of the most recent call of a guarded export
    \* ---- one StreamAnalyzer and the composable that may drive it ----
    analyzer,      \* the StreamAnalyzer object (wrapper + native engine state)
    comp,          \* useStreamAnalyzer: histories, streamingData, estimate
    \* ---- observation of the run (history variables) ----
    song,          \* which input signal is being streamed
    fed,           \* the samples passed to process() since construction / reset
    epoch,         \* how the current stream began and what was called in it
    lastOp,        \* the most recent call and what it returned
    readTs,        \* timestamps of all frames returned by readFrames in this epoch
    \* ---- single calls examined on their own ----
    ctor,          \* one new StreamAnalyzer(config): the record passed and the outcome
    matcher,       \* one detectProgressionPattern call: the arguments and the result
    \* ---- the page: composable lifecycle, playback, worklet, file loading ----
    life,          \* useStreamAnalyzer's analyzer/wasmModule variables and its async calls
    player,        \* useAudioPlayer: refs, source nodes, worklet nodes, pending plays
    proc,          \* one AudioStreamProcessor in the audio worklet
    page           \* AudioAnalyzer.vue: the file loads in flight and what they wrote

initVars == <<module, initPromise, promises, factoryCalls, callers, initCalls, lastCall>>
streamVars == <<analyzer, comp, song, fed, epoch, lastOp, readTs>>
callVars == <<ctor, matcher>>
appVars == <<life, player, proc, page>>
vars == <<module, initPromise, promises, factoryCalls, callers, initCalls, lastCall,
          analyzer, comp, song, fed, epoch, lastOp, readTs, ctor, matcher,
          life, player, proc, page>>

(***************************************************************************)
(* Bounds                                                                  *)
(***************************************************************************)
NumCallers == 2
MaxInitCalls == 3

Callers == 1..NumCallers

(***************************************************************************)
(* Module state and init()  (src/src/wasm/index.js)                        *)
(***************************************************************************)

\* The exports that need the module: each starts with
\*   if (!module) throw new Error('Module not initialized. Call init() first.')
ExportedFns ==
    { "version", "detectBpm", "detectKey", "detectOnsets", "detectBeats",
      "analyze", "analyzeWithProgress",
      "hpss", "harmonic", "percussive", "timeStretch", "pitchShift",
      "normalize", "trim",
      "stft", "stftDb", "melSpectrogram", "mfcc", "chroma",
      "spectralCentroid", "spectralBandwidth", "spectralRolloff",
      "spectralFlatness", "zeroCrossingRate", "rmsEnergy",
      "pitchYin", "pitchPyin",
      "hzToMel", "melToHz", "hzToMidi", "midiToHz", "hzToNote", "noteToHz",
      "framesToTime", "timeToFrames", "resample",
      "StreamAnalyzer" }

\* The module state as one value, for the operators below.
ModState == [module |-> module, initPromise |-> initPromise]

\* isInitialized(): module !== null
isInitialized(m) == m # 0

\* Mutant of ModuleGuardPasses: the guard tests the stored promise, so a call
\* made while init() is in flight goes through to the null module.
ModuleGuardPasses_onPromise(st) == st.initPromise # 0

\* if (!module) throw ...: TRUE when the guard lets the call through.
ModuleGuardPasses(st) == st.module # 0

\* A guarded export called in module state st: whether it threw, and the
\* module state it leaves.  The guard reads the state and writes nothing.
ExportCall(fn, st) ==
    [fn |-> fn,
     threw |-> ~ModuleGuardPasses(st),
     before |-> st,
     after |-> st]

\* State of a promise made by init()'s async IIFE, from the IIFE's position.
PromiseState(i) ==
    CASE promises[i].pc = "done" -> "fulfilled"
      [] promises[i].pc = "failed" -> "rejected"
      [] OTHER -> "pending"

\* Mutant of InitReusesPromise: init() never reuses the in-flight promise.
InitReusesPromise_never(p) == FALSE

\* if (initPromise) return initPromise
InitReusesPromise(p) == p # 0

\* init(): the synchronous part of one call by caller c.
\*   if (module) return;
\*   if (initPromise) return initPromise;
\*   initPromise = (async () => { ... await import('./sonare.js') ... })();
\*   return initPromise;
init_call(c) ==
    /\ callers[c].st # "awaiting"
    /\ initCalls < MaxInitCalls
    /\ initCalls' = initCalls + 1
    /\ IF module # 0
       THEN /\ callers' = [callers EXCEPT ![c] = [st |-> "resolved", p |-> 0]]
            /\ UNCHANGED <<initPromise, promises>>
       ELSE IF InitReusesPromise(initPromise)
       THEN /\ callers' = [callers EXCEPT ![c] = [st |-> "awaiting", p |-> initPromise]]
            /\ UNCHANGED <<initPromise, promises>>
       ELSE /\ promises' = Append(promises, [pc |-> "import", fid |-> 0])
            /\ initPromise' = Len(promises) + 1
            /\ callers' = [callers EXCEPT ![c] = [st |-> "awaiting", p |-> Len(promises) + 1]]
    /\ UNCHANGED <<module, factoryCalls, lastCall>>

\* init() called by a client that does nothing else in the same step.
init(c) ==
    /\ init_call(c)
    /\ UNCHANGED <<streamVars, callVars, appVars>>

\* const createModule = (await import('./sonare.js')).default: the import
\* settles; on success the IIFE goes on to call createModule(options).
ImportSettles(i, ok) ==
    /\ i \in 1..Len(promises)
    /\ promises[i].pc = "import"
    /\ IF ok
       THEN /\ factoryCalls' = factoryCalls + 1
            /\ promises' = [promises EXCEPT ![i] = [pc |-> "create", fid |-> factoryCalls + 1]]
       ELSE /\ promises' = [promises EXCEPT ![i] = [pc |-> "failed", fid |-> 0]]
            /\ UNCHANGED factoryCalls
    /\ UNCHANGED <<module, initPromise, callers, initCalls, lastCall, streamVars, callVars, appVars>>

\* module = await createModule(options): the factory's promise settles.
CreateSettles(i, ok) ==
    /\ i \in 1..Len(promises)
    /\ promises[i].pc = "create"
    /\ IF ok
       THEN /\ module' = promises[i].fid
            /\ promises' = [promises EXCEPT ![i].pc = "done"]
       ELSE /\ promises' = [promises EXCEPT ![i].pc = "failed"]
            /\ UNCHANGED module
    /\ UNCHANGED <<initPromise, factoryCalls, callers, initCalls, lastCall, streamVars, callVars, appVars>>

\* A caller's await of init() resumes once the promise it was given settled.
InitReturns(c) ==
    /\ callers[c].st = "awaiting"
    /\ PromiseState(callers[c].p) # "pending"
    /\ callers' = [callers EXCEPT ![c].st =
                      IF PromiseState(callers[c].p) = "fulfilled"
                      THEN "resolved" ELSE "rejected"]
    /\ UNCHANGED <<module, initPromise, promises, factoryCalls, initCalls, lastCall, streamVars, callVars, appVars>>

\* Any guarded export (or new StreamAnalyzer(config)) is called.
CallExport(fn) ==
    /\ lastCall' = ExportCall(fn, ModState)
    /\ module' = lastCall'.after.module
    /\ initPromise' = lastCall'.after.initPromise
    /\ UNCHANGED <<promises, factoryCalls, callers, initCalls, streamVars, callVars, appVars>>

NoCall == [fn |-> "none", threw |-> FALSE,
           before |-> [module |-> 0, initPromise |-> 0],
           after |-> [module |-> 0, initPromise |-> 0]]

(***************************************************************************)
(* Input signals.  A stream is a prefix of one of a few fixed signals, so  *)
(* that a window's content tells where in the stream it was cut.           *)
(***************************************************************************)
MaxTotal == 10    \* samples streamed per epoch (construction or reset to reset)
MaxChunk == 6     \* largest chunk passed to one process() call
MaxResets == 1    \* reset() calls per run
ModelNFft == 4    \* analysis window of the modelled configurations
ModelHop == 2     \* hop of the modelled configurations
HistoryCapFrames == 3   \* frames of evidence the estimator retains

RECURSIVE ThueMorse(_)
ThueMorse(i) == IF i = 0 THEN 0 ELSE (ThueMorse(i \div 2) + (i % 2)) % 2

SongNames == {"silence", "morse", "ramp"}

\* A signal whose onsets are dense, then sparser, then rare.
AccelSamples ==
    <<0, 1, 0, 1, 0, 1, 0, 0, 1, 1, 2, 0, 2, 0, 2, 0, 2, 0,
      0, 1, 1, 1, 0, 0, 0, 0, 0, 0, 0, 1, 0, 0, 1, 2, 0, 1>>

\* The signals of the long runs: "burst" is the start of "accel", then silence.
LongSongNames == {"silence", "ramp", "accel", "burst"}

\* Sample i (1-based) of a signal.
SampleOf(s, i) ==
    CASE s = "silence" -> 0
      [] s = "morse" -> ThueMorse(i)
      [] s = "accel" -> AccelSamples[((i - 1) % Len(AccelSamples)) + 1]
      [] s = "burst" -> IF i <= 12 THEN AccelSamples[i] ELSE 0
      [] OTHER -> i % 3

\* Samples from+1 .. from+n of a signal.
SongChunk(s, from, n) == [i \in 1..n |-> SampleOf(s, from + i)]

\* The sum of a sequence of numbers, eight at a time.
RECURSIVE SumSeq(_)
SumSeq(q) ==
    LET at(i) == IF i <= Len(q) THEN q[i] ELSE 0
        block == at(1) + at(2) + at(3) + at(4) + at(5) + at(6) + at(7) + at(8)
    IN  IF Len(q) <= 8 THEN block ELSE block + SumSeq(SubSeq(q, 9, Len(q)))

\* The concatenation of a sequence of sequences, eight at a time.
RECURSIVE Flatten(_)
Flatten(chunks) ==
    LET at(i) == IF i <= Len(chunks) THEN chunks[i] ELSE <<>>
        block == at(1) \o at(2) \o at(3) \o at(4) \o at(5) \o at(6) \o at(7) \o at(8)
    IN  IF Len(chunks) <= 8 THEN block ELSE block \o Flatten(SubSeq(chunks, 9, Len(chunks)))

Max2(x, y) == IF x >= y THEN x ELSE y
Min2(x, y) == IF x <= y THEN x ELSE y

\* The last n elements of q (all of q when it is shorter).
LastN(q, n) == IF Len(q) <= n THEN q ELSE SubSeq(q, Len(q) - n + 1, Len(q))

(***************************************************************************)
(* The native streaming engine behind module.StreamAnalyzer.  The          *)
(* repository ships it prebuilt; it is modelled from its documented        *)
(* contract.  Times are kept in sample periods (seconds * sampleRate).     *)
(***************************************************************************)
KeyUpdateIntervalSec == 5
BpmUpdateIntervalSec == 10
MinChordFrames == 2    \* frames a new chord must persist before it is committed
MinBarConfidence == 50 \* bpm confidence (percent) the bar tracker waits for

nChroma == 12

\* DSP primitives, opaque transforms of one window.
RmsEnergy(w, gain) == gain * SumSeq(w)
PitchClassOf(w) == SumSeq([i \in 1..Len(w) |-> i * w[i]]) % 12
QualityOf(w) == IF SumSeq(w) % 2 = 0 THEN 0 ELSE 1

EmptyEstimate ==
    [bpm |-> 0, bpmConfidence |-> 0, bpmCandidateCount |-> 0,
     key |-> 0, keyMinor |-> FALSE, keyConfidence |-> 0,
     chordRoot |-> -1, chordQuality |-> 0, chordConfidence |-> 0,
     chordProgression |-> <<>>, barChordProgression |-> <<>>,
     currentBar |-> -1, barDuration |-> 0,
     votedPattern |-> <<>>, patternLength |-> 0,
     detectedPatternName |-> "", detectedPatternScore |-> 0,
     allPatternScores |-> <<>>,
     accumulatedSeconds |-> 0, usedFrames |-> 0, updated |-> FALSE]

\* The estimate's fields other than its statistics and the dirty flag.
EstimateFields(e) ==
    [bpm |-> e.bpm, bpmConfidence |-> e.bpmConfidence,
     bpmCandidateCount |-> e.bpmCandidateCount,
     key |-> e.key, keyMinor |-> e.keyMinor, keyConfidence |-> e.keyConfidence,
     chordRoot |-> e.chordRoot, chordQuality |-> e.chordQuality,
     chordConfidence |-> e.chordConfidence,
     chordProgression |-> e.chordProgression,
     barChordProgression |-> e.barChordProgression,
     currentBar |-> e.currentBar, barDuration |-> e.barDuration,
     votedPattern |-> e.votedPattern, patternLength |-> e.patternLength,
     detectedPatternName |-> e.detectedPatternName,
     detectedPatternScore |-> e.detectedPatternScore,
     allPatternScores |-> e.allPatternScores]

\* new module.StreamAnalyzer(sampleRate, nFft, hopLength, nMels, computeMel,
\*                           computeChroma, computeOnset, emitEveryNFrames)
Native_new(sampleRate, nFft, hopLength, nMels, computeMel, computeChroma, computeOnset, emitEveryNFrames) ==
    [cfg |-> [sampleRate |-> sampleRate, nFft |-> nFft, hopLength |-> hopLength,
              nMels |-> nMels, computeMel |-> computeMel,
              computeChroma |-> computeChroma, computeOnset |-> computeOnset,
              emitEveryNFrames |-> emitEveryNFrames],
     buf |-> <<>>,            \* overlap buffer: samples not yet hopped over
     sampleOffset |-> 0,      \* stream position of buf's first sample
     frameCount |-> 0,
     totalSamples |-> 0,
     emitCounter |-> 0,
     pending |-> <<>>,        \* frames enqueued and not yet read
     hist |-> <<>>,           \* retained evidence, oldest first
     prevEnergy |-> -1,       \* previous frame's energy, -1 before the first
     cand |-> [root |-> -1, quality |-> 0, count |-> 0],
     lastKeyUpdate |-> 0,
     lastBpmUpdate |-> 0,
     bar |-> [start |-> -1, votes |-> <<>>],   \* the bar in progress
     est |-> EmptyEstimate,
     prevEst |-> EmptyEstimate,   \* the estimate before the latest frame was fed
     gain |-> 1,
     expectedDuration |-> 0,  \* seconds, 0 = not announced
     produced |-> <<>>]       \* every window cut in this epoch (start, content)

\* The configurations the engine's constructor rejects: the sample rate must
\* be positive and the hop positive and shorter than the window.
Native_rejects(cfg) ==
    cfg.sampleRate <= 0 \/ cfg.hopLength <= 0 \/ cfg.hopLength >= cfg.nFft

\* Index of a largest entry of a 12-bin histogram (lowest index on ties).
ArgMaxBin(h) == CHOOSE b \in 0..11 : \A c \in 0..11 : h[b] > h[c] \/ (h[b] = h[c] /\ b <= c)

\* Second largest value of a 12-bin histogram, the largest bin left out.
SecondBest(h) ==
    LET b == ArgMaxBin(h)
    IN  CHOOSE v \in {h[c] : c \in 0..11 \ {b}} : \A c \in 0..11 \ {b} : v >= h[c]

\* Key re-estimate from the retained chroma history: best-correlating pitch
\* class, confidence (percent) the margin over the runner-up.
KeyFromBins(h) ==
    LET b == ArgMaxBin(h)
    IN  IF h[b] = 0
        THEN [key |-> 0, keyMinor |-> FALSE, keyConfidence |-> 0]
        ELSE [key |-> b,
              keyMinor |-> (h[b] % 2 = 1),
              keyConfidence |-> ((h[b] - SecondBest(h)) * 100) \div h[b]]

\* The energy the retained history holds per pitch class, and the key it gives.
KeyFromHistory(hist) ==
    KeyFromBins([b \in 0..11 |->
                    SumSeq([i \in 1..Len(hist) |->
                               IF hist[i].pc = b THEN hist[i].energy ELSE 0])])

\* Tempo re-estimate from the retained onset envelope; no onset energy, no bpm.
\* bpm is kept in hundredths of a beat per minute.
BpmFromHistory(hist, cfg) ==
    LET onsets == SumSeq([i \in 1..Len(hist) |-> IF hist[i].onset > 0 THEN 1 ELSE 0])
        span == Len(hist) * cfg.hopLength
    IN  IF onsets = 0
        THEN [bpm |-> 0, bpmConfidence |-> 0, bpmCandidateCount |-> 0]
        ELSE [bpm |-> (6000 * cfg.sampleRate * onsets) \div span,
              bpmConfidence |-> (100 * onsets) \div Len(hist),
              bpmCandidateCount |-> onsets]

\* Bar duration for a tempo: 4 beats of 60 / bpm seconds, in sample periods
\* (bpm is in hundredths).
BarDurationOf(bpm, cfg) == (4 * 60 * 100 * cfg.sampleRate) \div bpm

\* Weight a chord gathered in a bar's votes.
VoteWeight(votes, root, quality) ==
    SumSeq([i \in 1..Len(votes) |->
               IF votes[i].root = root /\ votes[i].quality = quality
               THEN votes[i].weight ELSE 0])

\* The chord a bar is given: the one with the most confidence-weighted votes
\* (lowest root, then quality, on ties); root -1 when no frame had a chord.
BarWinner(votes) ==
    IF votes = <<>> THEN [root |-> -1, quality |-> 0, confidence |-> 0]
    ELSE LET cands == {<<votes[i].root, votes[i].quality>> : i \in 1..Len(votes)}
             w(c) == VoteWeight(votes, c[1], c[2])
             best == CHOOSE c \in cands :
                        \A d \in cands :
                            \/ w(c) > w(d)
                            \/ (w(c) = w(d) /\ (c[1] < d[1] \/ (c[1] = d[1] /\ c[2] <= d[2])))
             total == SumSeq([i \in 1..Len(votes) |-> votes[i].weight])
         IN  [root |-> best[1], quality |-> best[2],
              confidence |-> (100 * w(best)) \div total]

\* The bar tracker's step for the frame fr ending at stream time t, under the
\* tempo estimate b in force after this frame.  It starts once bpm > 0 with
\* confidence above the threshold, at the bar of the partition from time 0
\* that t falls in; from then on the frame's chord is added to the votes of
\* the bar in progress, and when the bar's duration has elapsed one entry is
\* appended and the next bar begins.  Committed entries are left as they are.
BarTrackerStep(a, fr, b, t) ==
    LET confident == b.bpm > 0 /\ b.bpmConfidence > MinBarConfidence
        dur == IF confident THEN BarDurationOf(b.bpm, a.cfg) ELSE a.est.barDuration
        running == dur > 0
        starting == running /\ a.est.currentBar < 0
        cur == IF starting THEN t \div dur ELSE a.est.currentBar
        start == IF starting THEN cur * dur ELSE a.bar.start
        votes == IF a.cfg.computeChroma /\ fr.chordConfidence > 0
                 THEN Append(a.bar.votes, [root |-> fr.chordRoot, quality |-> fr.chordQuality,
                                           weight |-> fr.chordConfidence])
                 ELSE a.bar.votes
        complete == running /\ t >= start + dur
        won == BarWinner(votes)
        bars == IF complete
                THEN Append(a.est.barChordProgression,
                            [barIndex |-> cur, root |-> won.root, quality |-> won.quality,
                             startTime |-> start, confidence |-> won.confidence])
                ELSE a.est.barChordProgression
    IN  IF ~running
        THEN [bar |-> a.bar, barDuration |-> a.est.barDuration,
              currentBar |-> a.est.currentBar, bars |-> a.est.barChordProgression]
        ELSE [bar |-> IF complete THEN [start |-> start + dur, votes |-> <<>>]
                      ELSE [start |-> start, votes |-> votes],
              barDuration |-> dur,
              currentBar |-> IF complete THEN cur + 1 ELSE cur,
              bars |-> bars]

\* The tempo in force after a re-estimate: a re-estimate without onset
\* evidence leaves the tempo as it was.
TempoAfter(fresh, e) ==
    IF fresh.bpm > 0 THEN fresh
    ELSE [bpm |-> e.bpm, bpmConfidence |-> e.bpmConfidence,
          bpmCandidateCount |-> e.bpmCandidateCount]

\* The estimator's state after the frame fr, given the retained history
\* hist1, the stream time acc, the key k and the tempo b in force after the
\* frame, and the bar tracker's step bt.
EstimatorCommit(a, fr, hist1, acc, keyDue, bpmDue, k, b, bt) ==
    LET cfg == a.cfg
        \* chord hysteresis: the frame's chord must persist MinChordFrames frames
        sounding == cfg.computeChroma /\ fr.chordConfidence > 0
        same == sounding /\ a.cand.root = fr.chordRoot /\ a.cand.quality = fr.chordQuality
        cand1 == IF ~sounding THEN [root |-> -1, quality |-> 0, count |-> 0]
                 ELSE IF same THEN [a.cand EXCEPT !.count = Min2(a.cand.count + 1, MinChordFrames)]
                 ELSE [root |-> fr.chordRoot, quality |-> fr.chordQuality, count |-> 1]
        commit == sounding /\ cand1.count >= MinChordFrames
                  /\ (a.est.chordRoot # cand1.root \/ a.est.chordQuality # cand1.quality)
        e1 == [a.est EXCEPT
                 !.bpm = b.bpm, !.bpmConfidence = b.bpmConfidence,
                 !.bpmCandidateCount = b.bpmCandidateCount,
                 !.key = k.key, !.keyMinor = k.keyMinor,
                 !.keyConfidence = k.keyConfidence,
                 !.chordRoot = IF commit THEN cand1.root ELSE @,
                 !.chordQuality = IF commit THEN cand1.quality ELSE @,
                 !.chordConfidence = IF commit THEN fr.chordConfidence ELSE @,
                 !.chordProgression =
                     IF commit
                     THEN Append(@, [root |-> cand1.root, quality |-> cand1.quality,
                                     startTime |-> fr.timestamp,
                                     confidence |-> fr.chordConfidence])
                     ELSE @,
                 !.barChordProgression = bt.bars,
                 !.currentBar = bt.currentBar,
                 !.barDuration = bt.barDuration,
                 !.votedPattern = LastN(bt.bars, 4),
                 !.patternLength = Len(LastN(bt.bars, 4)),
                 !.accumulatedSeconds = acc,
                 !.usedFrames = a.est.usedFrames + 1]
    IN  [a EXCEPT
           !.hist = hist1,
           !.cand = cand1,
           !.lastKeyUpdate = IF keyDue THEN acc ELSE @,
           !.lastBpmUpdate = IF bpmDue THEN acc ELSE @,
           !.bar = bt.bar,
           !.est = [e1 EXCEPT !.updated = (EstimateFields(e1) # EstimateFields(a.est))]]

\* The tempo, then the bar tracker, then the rest of the estimate.
EstimatorTrack(a, fr, hist1, acc, keyDue, bpmDue, k, b) ==
    EstimatorCommit(a, fr, hist1, acc, keyDue, bpmDue, k, b, BarTrackerStep(a, fr, b, acc))

\* One completed frame is fed to the progressive estimator.
EstimatorFeed(a, fr) ==
    LET cfg == a.cfg
        hist1 == LastN(Append(a.hist, [energy |-> fr.rmsEnergy, pc |-> fr.chordRoot,
                                       onset |-> fr.onsetStrength]),
                       HistoryCapFrames)
        acc == (a.est.usedFrames + 1) * cfg.hopLength
        keyDue == cfg.computeChroma
                  /\ acc - a.lastKeyUpdate >= KeyUpdateIntervalSec * cfg.sampleRate
        bpmDue == cfg.computeOnset
                  /\ acc - a.lastBpmUpdate >= BpmUpdateIntervalSec * cfg.sampleRate
    IN  EstimatorTrack(a, fr, hist1, acc, keyDue, bpmDue,
            IF keyDue THEN KeyFromHistory(hist1)
            ELSE [key |-> a.est.key, keyMinor |-> a.est.keyMinor,
                  keyConfidence |-> a.est.keyConfidence],
            IF bpmDue THEN TempoAfter(BpmFromHistory(hist1, cfg), a.est)
            ELSE [bpm |-> a.est.bpm, bpmConfidence |-> a.est.bpmConfidence,
                  bpmCandidateCount |-> a.est.bpmCandidateCount])

\* Per-frame feature extraction of one window cut at stream position start.
ExtractFrame(a, w, start) ==
    LET e == RmsEnergy(w, a.gain)
    IN  [frameIndex |-> a.frameCount,
         timestamp |-> start,
         rmsEnergy |-> e,
         onsetStrength |-> IF a.cfg.computeOnset /\ a.prevEnergy >= 0
                           THEN Max2(e - a.prevEnergy, 0) ELSE 0,
         chordRoot |-> IF a.cfg.computeChroma /\ e > 0 THEN PitchClassOf(w) ELSE -1,
         chordQuality |-> IF a.cfg.computeChroma /\ e > 0 THEN QualityOf(w) ELSE 0,
         chordConfidence |-> IF a.cfg.computeChroma /\ e > 0 THEN Min2(100, 25 * e) ELSE 0]

\* The engine after the frame fr of the window w at the head of the overlap
\* buffer: the estimator is fed, the buffer advances by a hop, and the frame
\* is enqueued if the throttle lets it through.
Native_frame(a, w, fr) ==
    LET cnt == a.emitCounter + 1
        emit == cnt >= a.cfg.emitEveryNFrames
    IN  [EstimatorFeed(a, fr) EXCEPT
           !.buf = SubSeq(a.buf, a.cfg.hopLength + 1, Len(a.buf)),
           !.sampleOffset = @ + a.cfg.hopLength,
           !.frameCount = @ + 1,
           !.prevEnergy = fr.rmsEnergy,
           !.prevEst = a.est,
           !.emitCounter = IF emit THEN 0 ELSE cnt,
           !.pending = IF emit THEN Append(@, fr) ELSE @,
           !.produced = Append(@, [start |-> a.sampleOffset, window |-> w])]

\* The window w is cut and its frame extracted.
Native_window(a, w) == Native_frame(a, w, ExtractFrame(a, w, a.sampleOffset))

\* Cut every window the buffer holds: while it has nFft samples, slice one
\* window at the hop position, extract, feed the estimator, enqueue every
\* emitEveryNFrames-th frame, and advance by hopLength.
RECURSIVE Native_drain(_)
Native_drain(a) ==
    IF Len(a.buf) < a.cfg.nFft
    THEN a
    ELSE Native_drain(Native_window(a, SubSeq(a.buf, 1, a.cfg.nFft)))

\* analyzer.process(samples)
Native_process(a, samples) ==
    Native_drain([a EXCEPT !.buf = @ \o samples,
                           !.totalSamples = @ + Len(samples)])

\* analyzer.processWithOffset(samples, sampleOffset): the chunk's first sample
\* is at stream position sampleOffset, so the buffered samples before it end
\* there; the overlap buffer itself is left as it is.
Native_processWithOffset(a, samples, sampleOffset) ==
    Native_drain([a EXCEPT !.sampleOffset = sampleOffset - Len(a.buf),
                           !.buf = @ \o samples,
                           !.totalSamples = @ + Len(samples)])

\* analyzer.availableFrames()
Native_availableFrames(a) == Len(a.pending)

\* Structure-of-Arrays layout of a run of frames: mel holds nMels values per
\* frame and chroma nChroma values per frame, frame after frame.
FrameBufferOf(frs, nMels) ==
    [nFrames |-> Len(frs),
     timestamps |-> [i \in 1..Len(frs) |-> frs[i].timestamp],
     mel |-> Flatten([i \in 1..Len(frs) |-> [m \in 1..nMels |-> frs[i].rmsEnergy]]),
     chroma |-> Flatten([i \in 1..Len(frs) |->
                   [b \in 1..nChroma |->
                       IF frs[i].chordRoot = b - 1 THEN frs[i].rmsEnergy ELSE 0]]),
     onsetStrength |-> [i \in 1..Len(frs) |-> frs[i].onsetStrength],
     rmsEnergy |-> [i \in 1..Len(frs) |-> frs[i].rmsEnergy],
     spectralCentroid |-> [i \in 1..Len(frs) |-> frs[i].chordRoot],
     spectralFlatness |-> [i \in 1..Len(frs) |-> frs[i].chordQuality],
     chordRoot |-> [i \in 1..Len(frs) |-> frs[i].chordRoot],
     chordQuality |-> [i \in 1..Len(frs) |-> frs[i].chordQuality],
     chordConfidence |-> [i \in 1..Len(frs) |-> frs[i].chordConfidence]]

\* analyzer.readFramesSoa(maxFrames): dequeue up to maxFrames, oldest first.
Native_readFramesSoa(a, maxFrames) ==
    LET n == Min2(Max2(maxFrames, 0), Len(a.pending))
    IN  [state |-> [a EXCEPT !.pending = SubSeq(@, n + 1, Len(@))],
         result |-> FrameBufferOf(SubSeq(a.pending, 1, n), a.cfg.nMels)]

\* analyzer.reset(baseSampleOffset): everything but the configuration.
Native_reset(a, baseSampleOffset) ==
    [Native_new(a.cfg.sampleRate, a.cfg.nFft, a.cfg.hopLength, a.cfg.nMels,
                a.cfg.computeMel, a.cfg.computeChroma, a.cfg.computeOnset,
                a.cfg.emitEveryNFrames)
       EXCEPT !.sampleOffset = baseSampleOffset, !.gain = a.gain,
              !.expectedDuration = a.expectedDuration]

\* analyzer.setExpectedDuration(seconds), analyzer.setNormalizationGain(gain):
\* the value is kept for the frames to come.
Native_setExpectedDuration(a, durationSeconds) == [a EXCEPT !.expectedDuration = durationSeconds]
Native_setNormalizationGain(a, gain) == [a EXCEPT !.gain = gain]

\* analyzer.stats(): a snapshot; the engine is left as it is.
Native_stats(a) ==
    [state |-> a,
     result |-> [totalFrames |-> a.frameCount,
                 totalSamples |-> a.totalSamples,
                 durationSeconds |-> a.totalSamples,
                 estimate |-> a.est]]


(***************************************************************************)
(* class StreamAnalyzer  (src/src/wasm/index.js)                           *)
(***************************************************************************)

\* config.field ?? dflt, for a configuration record that may omit the field.
Nullish(config, field, dflt) == IF field \in DOMAIN config THEN config[field] ELSE dflt

DefaultNFft == 2048
DefaultHopLength == 512
DefaultNMels == 128

\* Mutant of StreamAnalyzer_new: emitEveryNFrames is not passed on.
StreamAnalyzer_new_noThrottle(config) ==
    Native_new(config.sampleRate,
               Nullish(config, "nFft", DefaultNFft),
               Nullish(config, "hopLength", DefaultHopLength),
               Nullish(config, "nMels", DefaultNMels),
               Nullish(config, "computeMel", TRUE),
               Nullish(config, "computeChroma", TRUE),
               Nullish(config, "computeOnset", TRUE),
               1)

\* Mutant of StreamAnalyzer_new: an omitted hopLength defaults to a quarter of
\* the window instead of 512.
StreamAnalyzer_new_hopFromNFft(config) ==
    Native_new(config.sampleRate,
               Nullish(config, "nFft", DefaultNFft),
               Nullish(config, "hopLength", Nullish(config, "nFft", DefaultNFft) \div 4),
               Nullish(config, "nMels", DefaultNMels),
               Nullish(config, "computeMel", TRUE),
               Nullish(config, "computeChroma", TRUE),
               Nullish(config, "computeOnset", TRUE),
               Nullish(config, "emitEveryNFrames", 1))

\* constructor(config), the module being initialized.
StreamAnalyzer_new(config) ==
    Native_new(config.sampleRate,
               Nullish(config, "nFft", DefaultNFft),
               Nullish(config, "hopLength", DefaultHopLength),
               Nullish(config, "nMels", DefaultNMels),
               Nullish(config, "computeMel", TRUE),
               Nullish(config, "computeChroma", TRUE),
               Nullish(config, "computeOnset", TRUE),
               Nullish(config, "emitEveryNFrames", 1))

\* No StreamAnalyzer object: the constructor threw.
NoAnalyzer == [cfg |-> <<>>]

\* new StreamAnalyzer(config) in module state st: the guard, then the native
\* constructor with the resolved arguments, whose exception propagates.
StreamAnalyzer_constructor(config, st) ==
    IF ~ModuleGuardPasses(st)
    THEN [threw |-> TRUE, error |-> "Module not initialized. Call init() first.",
          analyzer |-> NoAnalyzer]
    ELSE LET a == StreamAnalyzer_new(config)
         IN  IF Native_rejects(a.cfg)
             THEN [threw |-> TRUE, error |-> "native", analyzer |-> NoAnalyzer]
             ELSE [threw |-> FALSE, error |-> "", analyzer |-> a]

\* Mutant of StreamAnalyzer_process: every chunk is handed over as if it began
\* at stream position 0.
StreamAnalyzer_process_offsetZero(a, samples) == Native_processWithOffset(a, samples, 0)

\* Mutant of StreamAnalyzer_process: chunks too short for a window are dropped.
StreamAnalyzer_process_dropsShort(a, samples) ==
    IF Len(samples) < a.cfg.nFft THEN a ELSE Native_process(a, samples)

\* Mutant of StreamAnalyzer_process: an empty chunk is taken for the end of the
\* stream and the buffered samples are flushed as a zero-padded window.
StreamAnalyzer_process_flushesOnEmpty(a, samples) ==
    IF samples = <<>> /\ a.buf # <<>>
    THEN Native_process(a, [i \in 1..(a.cfg.nFft - Len(a.buf)) |-> 0])
    ELSE Native_process(a, samples)

\* process(samples)
StreamAnalyzer_process(a, samples) == Native_process(a, samples)

\* Mutant of StreamAnalyzer_processWithOffset: an offset that disagrees with
\* the internal position is taken for a seek and the overlap buffer is dropped.
StreamAnalyzer_processWithOffset_dropsOverlap(a, samples, sampleOffset) ==
    IF sampleOffset # a.sampleOffset + Len(a.buf)
    THEN Native_processWithOffset([a EXCEPT !.buf = <<>>], samples, sampleOffset)
    ELSE Native_processWithOffset(a, samples, sampleOffset)

\* processWithOffset(samples, sampleOffset)
StreamAnalyzer_processWithOffset(a, samples, sampleOffset) ==
    Native_processWithOffset(a, samples, sampleOffset)

\* Mutant of StreamAnalyzer_availableFrames: the total frame count is returned.
StreamAnalyzer_availableFrames_total(a) == a.frameCount

\* availableFrames()
StreamAnalyzer_availableFrames(a) == Native_availableFrames(a)

\* Mutant of StreamAnalyzer_readFrames: one frame fewer is asked for.
StreamAnalyzer_readFrames_offByOne(a, maxFrames) == Native_readFramesSoa(a, maxFrames - 1)

\* Mutant of StreamAnalyzer_readFrames: the frames are returned and left queued.
StreamAnalyzer_readFrames_peek(a, maxFrames) ==
    [state |-> a, result |-> Native_readFramesSoa(a, maxFrames).result]

\* readFrames(maxFrames)
StreamAnalyzer_readFrames(a, maxFrames) == Native_readFramesSoa(a, maxFrames)

\* Mutant of StreamAnalyzer_reset: the call is not forwarded.
StreamAnalyzer_reset_notForwarded(a, args) == a

\* reset(baseSampleOffset = 0); args are the arguments actually passed.
StreamAnalyzer_reset(a, args) ==
    Native_reset(a, IF Len(args) = 0 THEN 0 ELSE args[1])

\* setExpectedDuration(durationSeconds), setNormalizationGain(gain)
StreamAnalyzer_setExpectedDuration(a, durationSeconds) ==
    Native_setExpectedDuration(a, durationSeconds)
StreamAnalyzer_setNormalizationGain(a, gain) == Native_setNormalizationGain(a, gain)

\* dispose(): this.analyzer.delete(). released is the set of instances whose
\* native object has been deleted.
StreamAnalyzer_dispose(released, id) == released \cup {id}

\* x || dflt for a field that may be missing from the native estimate.
OrElse(rec, field, dflt) == IF field \in DOMAIN rec THEN rec[field] ELSE dflt

\* Mutant of StatsBarChordProgression: only the four most recent bars are
\* copied, as for votedPattern.
StatsBarChordProgression_recent(e) ==
    LET bars == LastN(e.barChordProgression, 4)
    IN  [i \in 1..Len(bars) |->
            [barIndex |-> bars[i].barIndex, root |-> bars[i].root,
             quality |-> bars[i].quality, startTime |-> bars[i].startTime,
             confidence |-> bars[i].confidence]]

\* barChordProgression: s.estimate.barChordProgression.map(...)
StatsBarChordProgression(e) ==
    [i \in 1..Len(e.barChordProgression) |->
        [barIndex |-> e.barChordProgression[i].barIndex,
         root |-> e.barChordProgression[i].root,
         quality |-> e.barChordProgression[i].quality,
         startTime |-> e.barChordProgression[i].startTime,
         confidence |-> e.barChordProgression[i].confidence]]

\* Mutant of StatsCurrentBar: the bar is numbered from 1, as it is displayed.
StatsCurrentBar_oneBased(e) == e.currentBar + 1

\* currentBar: s.estimate.currentBar
StatsCurrentBar(e) == e.currentBar

\* The estimate as stats() copies it out of the native value s.
StatsEstimate(e) ==
    [bpm |-> e.bpm, bpmConfidence |-> e.bpmConfidence,
     bpmCandidateCount |-> e.bpmCandidateCount,
     key |-> e.key, keyMinor |-> e.keyMinor, keyConfidence |-> e.keyConfidence,
     chordRoot |-> e.chordRoot, chordQuality |-> e.chordQuality,
     chordConfidence |-> e.chordConfidence,
     chordProgression |->
        [i \in 1..Len(e.chordProgression) |->
            [root |-> e.chordProgression[i].root,
             quality |-> e.chordProgression[i].quality,
             startTime |-> e.chordProgression[i].startTime,
             confidence |-> e.chordProgression[i].confidence]],
     barChordProgression |-> StatsBarChordProgression(e),
     currentBar |-> StatsCurrentBar(e), barDuration |-> e.barDuration,
     votedPattern |->
        LET vp == OrElse(e, "votedPattern", <<>>)
        IN  [i \in 1..Len(vp) |->
                [barIndex |-> vp[i].barIndex, root |-> vp[i].root,
                 quality |-> vp[i].quality, startTime |-> vp[i].startTime,
                 confidence |-> vp[i].confidence]],
     patternLength |-> e.patternLength,
     detectedPatternName |-> OrElse(e, "detectedPatternName", ""),
     detectedPatternScore |-> OrElse(e, "detectedPatternScore", 0),
     allPatternScores |->
        LET ps == OrElse(e, "allPatternScores", <<>>)
        IN  [i \in 1..Len(ps) |-> [name |-> ps[i].name, score |-> ps[i].score]],
     accumulatedSeconds |-> e.accumulatedSeconds,
     usedFrames |-> e.usedFrames,
     updated |-> e.updated]

\* Mutant of StreamAnalyzer_stats: a tempo of 0 is replaced by a default of
\* 120 bpm (bpm: s.estimate.bpm || 120), bpm being in hundredths.
StreamAnalyzer_stats_defaultTempo(a) ==
    LET s == Native_stats(a)
    IN  [state |-> s.state,
         result |-> [totalFrames |-> s.result.totalFrames,
                     totalSamples |-> s.result.totalSamples,
                     durationSeconds |-> s.result.durationSeconds,
                     estimate |-> [StatsEstimate(s.result.estimate)
                                     EXCEPT !.bpm = IF @ = 0 THEN 12000 ELSE @]]]

\* Mutant of StatsUpdated: the flag is reported as set once anything was estimated.
StatsUpdated_sticky(e) == e.updated \/ e.usedFrames > 0

\* updated: s.estimate.updated
StatsUpdated(e) == e.updated

\* stats()
StreamAnalyzer_stats(a) ==
    LET s == Native_stats(a)
    IN  [state |-> s.state,
         result |-> [totalFrames |-> s.result.totalFrames,
                     totalSamples |-> s.result.totalSamples,
                     durationSeconds |-> s.result.durationSeconds,
                     estimate |-> [StatsEstimate(s.result.estimate)
                                     EXCEPT !.updated = StatsUpdated(s.result.estimate)]]]

\* frameCount()
StreamAnalyzer_frameCount(a) == a.frameCount

\* currentTime()
StreamAnalyzer_currentTime(a) == a.sampleOffset

(***************************************************************************)
(* useStreamAnalyzer  (src/src/composables/useStreamAnalyzer.ts)           *)
(***************************************************************************)
NOTE_NAMES == <<"C", "C#", "D", "D#", "E", "F", "F#", "G", "G#", "A", "A#", "B">>
CHORD_QUALITY_NAMES == <<"", "m", "dim", "aug", "7", "M7", "m7", "sus2", "sus4">>
DEGREE_NAMES == <<"I", "bII", "II", "bIII", "III", "IV", "bV", "V", "bVI", "VI", "bVII", "VII">>

\* JavaScript's %: the result takes the sign of the dividend.
JsRem(x, m) == IF x >= 0 THEN x % m ELSE -((-x) % m)

\* NOTE_NAMES[i] for an index that may lie outside the array.
NoteAt(i) == IF i \in 0..11 THEN NOTE_NAMES[i + 1] ELSE "undefined"

keyToName(keyIndex, isMinor) ==
    IF isMinor THEN NoteAt(JsRem(keyIndex, 12)) \o "m" ELSE NoteAt(JsRem(keyIndex, 12))

chordToName(root, quality) ==
    IF root < 0 \/ root > 11 THEN "-"
    ELSE NOTE_NAMES[root + 1] \o (IF quality \in 0..8 THEN CHORD_QUALITY_NAMES[quality + 1] ELSE "")

barChordToInfo(bc) ==
    [barIndex |-> bc.barIndex, chord |-> chordToName(bc.root, bc.quality),
     startTime |-> bc.startTime, confidence |-> bc.confidence]

\* [degree, quality] pairs; degree 0 = I ... 11 = VII, quality 0 = major, 1 = minor
PROGRESSION_PATTERNS ==
    << [key |-> "royalRoad", pattern |-> << <<0, 0>>, <<7, 0>>, <<9, 1>>, <<5, 0>> >>],
       [key |-> "komuro",    pattern |-> << <<9, 1>>, <<5, 0>>, <<7, 0>>, <<0, 0>> >>],
       [key |-> "canon",     pattern |-> << <<0, 0>>, <<7, 0>>, <<9, 1>>, <<4, 1>> >>],
       [key |-> "popPunk",   pattern |-> << <<0, 0>>, <<7, 0>>, <<5, 0>>, <<9, 1>> >>],
       [key |-> "fifties",   pattern |-> << <<0, 0>>, <<9, 1>>, <<5, 0>>, <<7, 0>> >>],
       [key |-> "sad",       pattern |-> << <<9, 1>>, <<5, 0>>, <<0, 0>>, <<7, 0>> >>],
       [key |-> "blues",     pattern |-> << <<0, 0>>, <<5, 0>>, <<0, 0>>, <<7, 0>> >>] >>

\* A variant without the + 12 that keeps the remainder non-negative.
chordToDegree_noWrap(chordRoot, keyRoot) == JsRem(chordRoot - keyRoot, 12)

chordToDegree(chordRoot, keyRoot) == JsRem(chordRoot - keyRoot + 12, 12)

\* A variant that gives every step on the right degree full credit.
StepCredit_ignoresQuality(actual, expected) ==
    IF actual.degree = expected[1] THEN 2 ELSE 0

\* Credit of one step, in halves: 2 = a match, 1 = right degree and wrong
\* quality, 0 = wrong degree.
StepCredit(actual, expected) ==
    IF actual.degree = expected[1]
    THEN IF actual.quality = expected[2] \/ (expected[2] <= 1 /\ actual.quality <= 1)
         THEN 2 ELSE 1
    ELSE 0

\* matches / patternLen of one alignment, in thousandths.
AlignmentConfidence(degrees, pattern, start) ==
    (SumSeq([i \in 1..Len(pattern) |-> StepCredit(degrees[start + i], pattern[i])]) * 500)
        \div Len(pattern)

\* A variant of the scan in which an equally good later alignment replaces
\* the best match.
RECURSIVE PatternScan_lastWins(_, _, _, _)
PatternScan_lastWins(degrees, pi, start, best) ==
    IF pi > Len(PROGRESSION_PATTERNS) THEN best
    ELSE LET pat == PROGRESSION_PATTERNS[pi].pattern
         IN  IF start > Len(degrees) - Len(pat)
             THEN PatternScan_lastWins(degrees, pi + 1, 0, best)
             ELSE LET conf == AlignmentConfidence(degrees, pat, start)
                      better == conf >= 500 /\ (best.pi = 0 \/ conf >= best.confidence)
                  IN  PatternScan_lastWins(degrees, pi, start + 1,
                                  IF better THEN [pi |-> pi, confidence |-> conf] ELSE best)

\* The scan of detectProgressionPattern from pattern pi, offset start on, best
\* being the best match so far (pi = 0: none).
RECURSIVE PatternScan(_, _, _, _)
PatternScan(degrees, pi, start, best) ==
    IF pi > Len(PROGRESSION_PATTERNS) THEN best
    ELSE LET pat == PROGRESSION_PATTERNS[pi].pattern
         IN  IF start > Len(degrees) - Len(pat)
             THEN PatternScan(degrees, pi + 1, 0, best)
             ELSE LET conf == AlignmentConfidence(degrees, pat, start)
                      better == conf >= 500 /\ (best.pi = 0 \/ conf > best.confidence)
                  IN  PatternScan(degrees, pi, start + 1,
                                  IF better THEN [pi |-> pi, confidence |-> conf] ELSE best)

\* The confidence computed for every template (outer) and every slide offset
\* (inner, from 0) over the window of recent bar-chords, in scan order.
AlignmentScores(barChords, keyRoot) ==
    LET recentChords == LastN(barChords, 8)
        degrees == [i \in 1..Len(recentChords) |->
                       [degree |-> chordToDegree(recentChords[i].root, keyRoot),
                        quality |-> recentChords[i].quality]]
    IN  [pi \in 1..Len(PROGRESSION_PATTERNS) |->
            LET pat == PROGRESSION_PATTERNS[pi].pattern
            IN  [k \in 1..Max2(Len(degrees) - Len(pat) + 1, 0) |->
                    AlignmentConfidence(degrees, pat, k - 1)]]

RECURSIVE JoinDash(_)
JoinDash(q) ==
    IF q = <<>> THEN ""
    ELSE IF Len(q) = 1 THEN q[1] ELSE q[1] \o "-" \o JoinDash(Tail(q))

\* base.toLowerCase() of a degree name.
LowerDegree(d) ==
    CASE d = "I" -> "i" [] d = "bII" -> "bii" [] d = "II" -> "ii"
      [] d = "bIII" -> "biii" [] d = "III" -> "iii" [] d = "IV" -> "iv"
      [] d = "bV" -> "bv" [] d = "V" -> "v" [] d = "bVI" -> "bvi"
      [] d = "VI" -> "vi" [] d = "bVII" -> "bvii" [] OTHER -> "vii"

NoPattern == [key |-> "", degrees |-> "", confidence |-> 0]

\* detectProgressionPattern(barChords, keyRoot); NoPattern stands for null.
detectProgressionPattern(barChords, keyRoot) ==
    IF Len(barChords) < 4 THEN NoPattern
    ELSE LET recentChords == LastN(barChords, 8)
             degrees == [i \in 1..Len(recentChords) |->
                            [degree |-> chordToDegree(recentChords[i].root, keyRoot),
                             quality |-> recentChords[i].quality]]
             bestMatch == PatternScan(degrees, 1, 0, [pi |-> 0, confidence |-> 0])
         IN  IF bestMatch.pi = 0 THEN NoPattern
             ELSE LET pat == PROGRESSION_PATTERNS[bestMatch.pi]
                  IN  [key |-> pat.key,
                       degrees |-> JoinDash([i \in 1..Len(pat.pattern) |->
                                     IF pat.pattern[i][2] = 1
                                     THEN LowerDegree(DEGREE_NAMES[pat.pattern[i][1] + 1]) \o "m"
                                     ELSE DEGREE_NAMES[pat.pattern[i][1] + 1]]),
                       confidence |-> bestMatch.confidence]

\* The estimate ref's initial value, which reset() assigns again.
InitialStreamEstimate ==
    [bpm |-> 0, bpmConfidence |-> 0, key |-> "-", keyConfidence |-> 0,
     chord |-> "-", chordConfidence |-> 0, barChordProgression |-> <<>>,
     votedPattern |-> <<>>, detectedPatternName |-> "", detectedPatternScore |-> 0,
     progressionPattern |-> NoPattern, currentBar |-> -1, barDuration |-> 0,
     accumulatedSeconds |-> 0]

maxChunks == 300

\* The streamingData ref's initial value for a given mel band count.
EmptyStreamingData(nMels) ==
    [chroma |-> <<>>, rms |-> <<>>, mel |-> <<>>, spectralCentroid |-> <<>>,
     spectralFlatness |-> <<>>, onsetStrength |-> <<>>, timestamps |-> <<>>,
     nFrames |-> 0, nMels |-> nMels, nChroma |-> nChroma]

\* const defaultConfig = { sampleRate: 44100, nFft: 2048, ..., ...options }
DefaultConfigOf(options) ==
    [f \in {"sampleRate", "nFft", "hopLength", "nMels", "computeMel",
            "computeChroma", "computeOnset", "emitEveryNFrames"} |->
        IF f \in DOMAIN options THEN options[f]
        ELSE CASE f = "sampleRate" -> 44100
               [] f = "nFft" -> DefaultNFft
               [] f = "hopLength" -> DefaultHopLength
               [] f = "nMels" -> DefaultNMels
               [] f = "emitEveryNFrames" -> 1
               [] OTHER -> TRUE]

\* The composable after a successful init() with the given options.
ComposableReady(options) ==
    [isInitialized |-> TRUE,
     hasAnalyzer |-> TRUE,
     defaultConfig |-> DefaultConfigOf(options),
     chromaHistory |-> <<>>, rmsHistory |-> <<>>, melHistory |-> <<>>,
     timestampHistory |-> <<>>, spectralCentroidHistory |-> <<>>,
     spectralFlatnessHistory |-> <<>>, onsetStrengthHistory |-> <<>>,
     streamingData |-> EmptyStreamingData(Nullish(options, "nMels", DefaultNMels)),
     estimate |-> InitialStreamEstimate]

\* A variant of accumulateFrames without the trimming loop.
accumulateFrames_noTrim(c, frames) ==
    IF frames.nFrames = 0 THEN c
    ELSE [c EXCEPT
            !.chromaHistory = Append(@, frames.chroma),
            !.rmsHistory = Append(@, frames.rmsEnergy),
            !.melHistory = Append(@, frames.mel),
            !.timestampHistory = Append(@, frames.timestamps),
            !.spectralCentroidHistory = Append(@, frames.spectralCentroid),
            !.spectralFlatnessHistory = Append(@, frames.spectralFlatness),
            !.onsetStrengthHistory = Append(@, frames.onsetStrength)]

\* accumulateFrames(frames)
accumulateFrames(c, frames) ==
    IF frames.nFrames = 0 THEN c
    ELSE [c EXCEPT
            !.chromaHistory = LastN(Append(@, frames.chroma), maxChunks),
            !.rmsHistory = LastN(Append(@, frames.rmsEnergy), maxChunks),
            !.melHistory = LastN(Append(@, frames.mel), maxChunks),
            !.timestampHistory = LastN(Append(@, frames.timestamps), maxChunks),
            !.spectralCentroidHistory = LastN(Append(@, frames.spectralCentroid), maxChunks),
            !.spectralFlatnessHistory = LastN(Append(@, frames.spectralFlatness), maxChunks),
            !.onsetStrengthHistory = LastN(Append(@, frames.onsetStrength), maxChunks)]

\* A chunk copied value by value into width * frames slots (chunk[i] || 0).
Interleaved(chunk, frames, width) ==
    [i \in 1..(frames * width) |-> IF i <= Len(chunk) THEN chunk[i] ELSE 0]

\* updateStreamingData()
updateStreamingData(c) ==
    LET nMels == c.defaultConfig.nMels
        totalFrames == SumSeq([i \in 1..Len(c.rmsHistory) |-> Len(c.rmsHistory[i])])
    IN  IF totalFrames = 0 THEN c
        ELSE [c EXCEPT !.streamingData =
                [chroma |-> Flatten([i \in 1..Len(c.rmsHistory) |->
                               Interleaved(c.chromaHistory[i], Len(c.rmsHistory[i]), nChroma)]),
                 rms |-> Flatten(c.rmsHistory),
                 mel |-> Flatten([i \in 1..Len(c.rmsHistory) |->
                               Interleaved(c.melHistory[i], Len(c.rmsHistory[i]), nMels)]),
                 spectralCentroid |-> Flatten(c.spectralCentroidHistory),
                 spectralFlatness |-> Flatten(c.spectralFlatnessHistory),
                 onsetStrength |-> Flatten(c.onsetStrengthHistory),
                 timestamps |-> Flatten(c.timestampHistory),
                 nFrames |-> totalFrames,
                 nMels |-> nMels,
                 nChroma |-> nChroma]]

\* Math.round(bpm * 10) / 10, bpm in hundredths.
RoundToTenth(bpm) == ((bpm + 5) \div 10) * 10

\* updateEstimate(progressiveEstimate); confidences are in percent.
updateEstimate(c, pe) ==
    IF ~pe.updated THEN c
    ELSE [c EXCEPT !.estimate =
            [bpm |-> RoundToTenth(pe.bpm),
             bpmConfidence |-> pe.bpmConfidence,
             key |-> IF pe.keyConfidence > 30 THEN keyToName(pe.key, pe.keyMinor) ELSE "-",
             keyConfidence |-> pe.keyConfidence,
             chord |-> IF pe.chordConfidence > 30
                       THEN chordToName(pe.chordRoot, pe.chordQuality) ELSE "-",
             chordConfidence |-> pe.chordConfidence,
             barChordProgression |->
                [i \in 1..Len(pe.barChordProgression) |-> barChordToInfo(pe.barChordProgression[i])],
             votedPattern |->
                [i \in 1..Len(pe.votedPattern) |->
                    chordToName(pe.votedPattern[i].root, pe.votedPattern[i].quality)],
             detectedPatternName |-> pe.detectedPatternName,
             detectedPatternScore |-> pe.detectedPatternScore,
             progressionPattern |-> detectProgressionPattern(pe.barChordProgression, pe.key),
             currentBar |-> pe.currentBar,
             barDuration |-> pe.barDuration,
             accumulatedSeconds |-> pe.accumulatedSeconds]]

\* process(samples), its last part: const stats = analyzer.stats();
\* updateEstimate(stats.estimate).
useStream_poll(c, a) ==
    LET st == StreamAnalyzer_stats(a)
    IN  [comp |-> updateEstimate(c, st.result.estimate), analyzer |-> st.state]

\* process(samples), its middle part: the available frames are read,
\* accumulated and shown.
useStream_drain(c, a) ==
    LET availableFrames == StreamAnalyzer_availableFrames(a)
        rd == StreamAnalyzer_readFrames(a, availableFrames)
    IN  IF availableFrames > 0
        THEN useStream_poll(updateStreamingData(accumulateFrames(c, rd.result)), rd.state)
        ELSE useStream_poll(c, a)

\* process(samples): the composable c driving its analyzer a.
useStream_process(c, a, samples) ==
    IF ~c.hasAnalyzer \/ ~c.isInitialized
    THEN [comp |-> c, analyzer |-> a]
    ELSE useStream_drain(c, StreamAnalyzer_process(a, samples))

\* Mutant of useStream_reset: the analyzer is left as it is.
useStream_reset_keepsAnalyzer(c, a) ==
    [comp |-> [c EXCEPT
                 !.chromaHistory = <<>>, !.rmsHistory = <<>>, !.melHistory = <<>>,
                 !.timestampHistory = <<>>, !.spectralCentroidHistory = <<>>,
                 !.spectralFlatnessHistory = <<>>, !.onsetStrengthHistory = <<>>,
                 !.streamingData = EmptyStreamingData(c.defaultConfig.nMels),
                 !.estimate = InitialStreamEstimate],
     analyzer |-> a]

\* reset()
useStream_reset(c, a) ==
    [comp |-> [c EXCEPT
                 !.chromaHistory = <<>>, !.rmsHistory = <<>>, !.melHistory = <<>>,
                 !.timestampHistory = <<>>, !.spectralCentroidHistory = <<>>,
                 !.spectralFlatnessHistory = <<>>, !.onsetStrengthHistory = <<>>,
                 !.streamingData = EmptyStreamingData(c.defaultConfig.nMels),
                 !.estimate = InitialStreamEstimate],
     analyzer |-> IF c.hasAnalyzer THEN StreamAnalyzer_reset(a, <<>>) ELSE a]

(***************************************************************************)
(* One analyzer in use: the calls a client can make on it, directly        *)
(* (process, processWithOffset, readFrames, reset, stats) or through the   *)
(* composable (process, reset).                                            *)
(***************************************************************************)
ModelNMels == 2
MaxEmitEvery == 2
MaxRead == 3
ResyncSkew == 2    \* how far a caller-supplied offset may run ahead

\* Chunk lengths passed to process(): empty, a single sample, an uneven
\* length, and one long enough to complete several windows.
ChunkSizes == {0, 1, ModelHop + 1, MaxChunk}

\* The long runs: a stream long enough for several tempo updates and bars,
\* with a window of two samples and a hop of one, so that a frame is a second.
LongTotal == 36
LongChunkSizes == {1, 3}
LongOptions == [sampleRate |-> 1, nFft |-> 2, hopLength |-> 1, nMels |-> ModelNMels]

BaseOptions == [sampleRate |-> 1, nFft |-> ModelNFft, hopLength |-> ModelHop,
                nMels |-> ModelNMels]

\* The configuration records the analyzer is constructed from.
ModelOptions ==
    {BaseOptions} \cup
    {[sampleRate |-> 1, nFft |-> ModelNFft, hopLength |-> ModelHop,
      nMels |-> ModelNMels, emitEveryNFrames |-> n] : n \in 2..MaxEmitEvery}

\* The hour-long run, scaled: more process() calls than the composable keeps
\* chunks, on the same window and hop.
HourTotal == 304
HourChunkSizes == {0, 1}
HourSongNames == {"accel", "ramp"}

NoBatch == FrameBufferOf(<<>>, ModelNMels)
NoOp == [op |-> "new", arg |-> 0, batch |-> NoBatch]

\* driver: whether the analyzer is called directly or owned by the composable.
\* limit, songs: how long a stream the run passes and which signals it draws.
FreshEpoch(driver) ==
    [driver |-> driver, kind |-> "fresh", base |-> 0, clean |-> TRUE, resets |-> 0,
     limit |-> MaxTotal, songs |-> SongNames]

\* analyzer.process(samples) with the next n samples of the signal.
Process(n) ==
    /\ epoch.driver = "direct"
    /\ Len(fed) + n <= epoch.limit
    /\ LET samples == SongChunk(song, Len(fed), n)
       IN  /\ analyzer' = StreamAnalyzer_process(analyzer, samples)
           /\ fed' = fed \o samples
    /\ lastOp' = [NoOp EXCEPT !.op = "process"]
    /\ UNCHANGED <<comp, song, epoch, readTs, initVars, callVars, appVars>>

\* analyzer.processWithOffset(samples, off) with the next n samples; the
\* caller's offset agrees with the stream position or runs ahead of it.
ProcessWithOffset(n, skew) ==
    /\ epoch.driver = "direct"
    /\ Len(fed) + n <= epoch.limit
    /\ skew # 0 => epoch.clean
    /\ LET samples == SongChunk(song, Len(fed), n)
           off == epoch.base + Len(fed) + skew
       IN  /\ analyzer' = StreamAnalyzer_processWithOffset(analyzer, samples, off)
           /\ fed' = fed \o samples
    /\ epoch' = [epoch EXCEPT !.clean = @ /\ skew = 0]
    /\ lastOp' = [NoOp EXCEPT !.op = "processWithOffset", !.arg = skew]
    /\ UNCHANGED <<comp, song, readTs, initVars, callVars, appVars>>

\* analyzer.readFrames(maxFrames)
ReadFrames(maxFrames) ==
    /\ epoch.driver = "direct"
    /\ LET r == StreamAnalyzer_readFrames(analyzer, maxFrames)
       IN  /\ analyzer' = r.state
           /\ lastOp' = [op |-> "readFrames", arg |-> maxFrames, batch |-> r.result]
           /\ readTs' = readTs \o r.result.timestamps
    /\ UNCHANGED <<comp, song, fed, epoch, initVars, callVars, appVars>>

\* analyzer.reset(...args); a new stream follows.
Reset(args) ==
    /\ epoch.driver = "direct"
    /\ epoch.resets < MaxResets
    /\ analyzer' = StreamAnalyzer_reset(analyzer, args)
    /\ song' \in epoch.songs
    /\ fed' = <<>>
    /\ readTs' = <<>>
    /\ epoch' = [epoch EXCEPT !.kind = "reset",
                              !.base = IF Len(args) = 0 THEN 0 ELSE args[1],
                              !.clean = TRUE, !.resets = @ + 1]
    /\ lastOp' = [NoOp EXCEPT !.op = "reset", !.arg = Len(args)]
    /\ UNCHANGED <<comp, initVars, callVars, appVars>>

\* analyzer.stats()
Stats ==
    /\ analyzer' = StreamAnalyzer_stats(analyzer).state
    /\ lastOp' = [NoOp EXCEPT !.op = "stats"]
    /\ UNCHANGED <<comp, song, fed, epoch, readTs, initVars, callVars, appVars>>

\* The composable's process(samples) with the next n samples.
CompProcess(n) ==
    /\ epoch.driver = "composable"
    /\ Len(fed) + n <= epoch.limit
    /\ \E r \in {useStream_process(comp, analyzer, SongChunk(song, Len(fed), n))} :
          /\ analyzer' = r.analyzer
          /\ comp' = r.comp
          /\ readTs' = IF r.comp.timestampHistory = comp.timestampHistory
                       THEN readTs
                       ELSE readTs \o r.comp.timestampHistory[Len(r.comp.timestampHistory)]
    /\ fed' = fed \o SongChunk(song, Len(fed), n)
    /\ lastOp' = [NoOp EXCEPT !.op = "comp.process"]
    /\ UNCHANGED <<song, epoch, initVars, callVars, appVars>>

\* The composable's reset(); a new stream follows.
CompReset ==
    /\ epoch.driver = "composable"
    /\ epoch.resets < MaxResets
    /\ LET r == useStream_reset(comp, analyzer)
       IN  /\ analyzer' = r.analyzer
           /\ comp' = r.comp
    /\ song' \in epoch.songs
    /\ fed' = <<>>
    /\ readTs' = <<>>
    /\ epoch' = [epoch EXCEPT !.kind = "reset", !.base = 0, !.clean = TRUE,
                              !.resets = @ + 1]
    /\ lastOp' = [NoOp EXCEPT !.op = "comp.reset"]
    /\ UNCHANGED <<initVars, callVars, appVars>>

(***************************************************************************)
(* Single calls: one construction, one pattern detection.                  *)
(***************************************************************************)
NoCtor == [config |-> <<>>, done |-> FALSE, threw |-> FALSE, analyzer |-> NoAnalyzer]
NoMatch == [barChords |-> <<>>, keyRoot |-> 0, done |-> FALSE, result |-> NoPattern,
            scores |-> <<>>]

\* The chord of a template step in a key, played as written ("exact"), with
\* major and minor exchanged ("swap"), diminished ("dim"), or a semitone off
\* the degree ("wrong").
StepChord(step, keyRoot, variant) ==
    [root |-> (step[1] + keyRoot + (IF variant = "wrong" THEN 1 ELSE 0)) % 12,
     quality |-> CASE variant = "swap" -> 1 - step[2]
                   [] variant = "dim" -> 2
                   [] OTHER -> step[2]]

StepVariants == {"exact", "swap", "dim", "wrong"}

\* Template pi in a key, each step played in its own variant.
TemplateChords(pi, keyRoot, variants) ==
    [i \in 1..4 |-> StepChord(PROGRESSION_PATTERNS[pi].pattern[i], keyRoot, variants[i])]

AllExact == [i \in 1..4 |-> "exact"]

\* A chord on the flattened second degree, which no template uses.
JunkChord(keyRoot) == [root |-> (1 + keyRoot) % 12, quality |-> 0]

\* The bar-chord histories tried, each with its key root:
\*  - every template in every combination of step variants, in two keys;
\*  - the first template in every key, once and twice over;
\*  - histories shorter than a template;
\*  - two templates in a row, with up to two older bars before them, so that
\*    several templates match equally well and the oldest bars fall outside
\*    the window of eight;
\*  - a template followed by up to eight newer bars that fit no template.
MatcherInputs ==
    { <<TemplateChords(pi, k, v), k>> :
          pi \in 1..Len(PROGRESSION_PATTERNS), k \in {0, 7},
          v \in [1..4 -> StepVariants] }
    \cup { <<TemplateChords(1, k, AllExact), k>> : k \in 0..11 }
    \cup { <<TemplateChords(1, k, AllExact) \o TemplateChords(1, k, AllExact), k>> : k \in 0..11 }
    \cup { <<SubSeq(TemplateChords(pi, 0, AllExact), 1, n), 0>> :
              pi \in 1..Len(PROGRESSION_PATTERNS), n \in 0..3 }
    \cup { <<[i \in 1..n |-> JunkChord(k)] \o TemplateChords(p1, k, AllExact)
                \o TemplateChords(p2, k, AllExact), k>> :
              p1 \in 1..Len(PROGRESSION_PATTERNS), p2 \in 1..Len(PROGRESSION_PATTERNS),
              n \in 0..2, k \in {0, 5} }
    \cup { <<TemplateChords(pi, 0, AllExact) \o [i \in 1..n |-> JunkChord(0)], 0>> :
              pi \in 1..Len(PROGRESSION_PATTERNS), n \in 1..8 }

\* detectProgressionPattern(matcher.barChords, matcher.keyRoot) is evaluated;
\* scores keeps the confidence it computed for every alignment.
Detect ==
    /\ ~matcher.done
    /\ matcher' = [matcher EXCEPT
                      !.done = TRUE,
                      !.result = detectProgressionPattern(matcher.barChords, matcher.keyRoot),
                      !.scores = IF Len(matcher.barChords) < 4 THEN <<>>
                                 ELSE AlignmentScores(matcher.barChords, matcher.keyRoot)]
    /\ UNCHANGED <<initVars, streamVars, ctor, appVars>>

\* The configuration records tried: sampleRate always given, nFft and
\* hopLength given or omitted, values on both sides of every limit.
ConstructConfigs ==
    { [sampleRate |-> sr] : sr \in {-1, 0, 1, 44100} }
    \cup { [sampleRate |-> sr, nFft |-> n] :
              sr \in {-1, 0, 1, 44100}, n \in {1, 256, 512, 513, 2048, 4096} }
    \cup { [sampleRate |-> sr, hopLength |-> h] :
              sr \in {-1, 0, 1, 44100}, h \in {-1, 0, 1, 512, 2047, 2048} }
    \cup { [sampleRate |-> sr, nFft |-> n, hopLength |-> h] :
              sr \in {-1, 0, 1, 44100}, n \in {1, 256, 512, 513, 2048, 4096},
              h \in {-1, 0, 1, 512, 2047, 2048} }

\* new StreamAnalyzer(ctor.config) is evaluated.
Construct ==
    /\ ~ctor.done
    /\ LET r == StreamAnalyzer_constructor(ctor.config, ModState)
       IN  ctor' = [ctor EXCEPT !.done = TRUE, !.threw = r.threw, !.analyzer = r.analyzer]
    /\ UNCHANGED <<initVars, streamVars, matcher, appVars>>

(***************************************************************************)
(* The composable's lifecycle (src/src/composables/useStreamAnalyzer.ts):  *)
(* init, reinit, process, the two setters, reset and destroy, called in    *)
(* any order. init and reinit are async: a call stops at each await and    *)
(* other calls run meanwhile. comp and analyzer hold the composable's refs *)
(* and the state of the instance the `analyzer` variable points to.        *)
(***************************************************************************)
MaxLifeOps == 4      \* calls made on the composable in one run
LifeTotal == 7       \* samples passed to process() in one run
LifeChunkSizes == {ModelHop + 1, MaxChunk}
\* Sample rates passed to reinit(): one the engine accepts, one it rejects.
LifeRates == {1, 0}
LifeGain == 2
LifeDuration == 3

\* One async call of init() or reinit(): where it is suspended.
\*   "import"     at  wasmModule = await import('@/wasm/index')
\*   "wasmInit"   at  await wasmModule.init()
\*   "reinitTail" at  await init()  in reinit, init() having finished
NoTask == [kind |-> "none", pc |-> "idle", rate |-> 0]

\* The composable before init(): analyzer = null, wasmModule = null.
\*   ref       which instance `analyzer` points to, 0 = null
\*   made      how many StreamAnalyzer instances were constructed
\*   disposed  the instances dispose() was called on
\*   misused   the instances a method was invoked on after their dispose()
NoLife ==
    [wasmModule |-> FALSE, ref |-> 0, made |-> 0, disposed |-> {}, misused |-> {},
     error |-> FALSE, tasks |-> [t \in Callers |-> NoTask], ops |-> 0, last |-> "none"]

\* The options useStreamAnalyzer(options) is called with.
LifeOptions == BaseOptions

\* The refs of a composable that was not initialized yet.
ComposableNew(options) ==
    [ComposableReady(options) EXCEPT !.isInitialized = FALSE, !.hasAnalyzer = FALSE]

\* The await of wasmModule.init() by task t can resume: init() returned
\* without a promise, or the promise it returned has settled.
InitSettled(t) ==
    \/ callers[t].st = "resolved"
    \/ callers[t].st = "awaiting" /\ PromiseState(callers[t].p) # "pending"

\* A continuation is queued as a microtask; it runs before any new call or
\* event is handled.
MicrotaskPending ==
    \E t \in Callers :
        \/ life.tasks[t].pc = "reinitTail"
        \/ life.tasks[t].pc = "wasmInit" /\ InitSettled(t)

\* A method is invoked on the instance `analyzer` points to: an instance
\* already disposed is recorded as misused.
Invoke(l) ==
    IF l.ref \in l.disposed THEN [l EXCEPT !.misused = @ \cup {l.ref}] ELSE l

\* Where an async call goes when the init() it runs has finished: init() is
\* done, reinit continues after its await.
AfterInit(task) ==
    IF task.kind = "reinit" THEN [task EXCEPT !.pc = "reinitTail"] ELSE NoTask

\* new wasmModule.StreamAnalyzer(config): a TypeError when wasmModule is
\* null, else the wrapper's constructor.
useStream_construct(l, config, st) ==
    IF ~l.wasmModule
    THEN [threw |-> TRUE, error |-> "TypeError", analyzer |-> NoAnalyzer]
    ELSE StreamAnalyzer_constructor(config, st)

\* init(), from the call to the first await.
\*   if (isInitialized.value) return
\*   try { wasmModule = await import('@/wasm/index') ...
useStream_init(l, c, t, kind, rate) ==
    IF c.isInitialized
    THEN [l EXCEPT !.tasks[t] = AfterInit([kind |-> kind, pc |-> "idle", rate |-> rate])]
    ELSE [l EXCEPT !.tasks[t] = [kind |-> kind, pc |-> "import", rate |-> rate]]

\* init(), after await wasmModule.init() resolved:
\*   analyzer = new wasmModule.StreamAnalyzer(defaultConfig)
\*   isInitialized.value = true; error.value = null
\* and the catch block when the constructor throws.
useStream_initTail(l, c, a, t, st) ==
    LET r == useStream_construct(l, c.defaultConfig, st)
        l1 == [l EXCEPT !.tasks[t] = AfterInit(@), !.last = "init"]
    IN  IF r.threw
        THEN [life |-> [l1 EXCEPT !.error = TRUE], comp |-> c, analyzer |-> a]
        ELSE [life |-> [l1 EXCEPT !.made = @ + 1, !.ref = l.made + 1, !.error = FALSE],
              comp |-> [c EXCEPT !.isInitialized = TRUE, !.hasAnalyzer = TRUE],
              analyzer |-> r.analyzer]

\* reinit(newSampleRate), after the optional await init():
\*   if (analyzer) analyzer.dispose()
\*   defaultConfig.sampleRate = newSampleRate; nFft, hopLength from options
\*   analyzer = new wasmModule!.StreamAnalyzer(defaultConfig)
\*   the seven history arrays are emptied
\* An exception leaves the rest undone. throws: whether dispose() on an
\* instance already disposed raises an exception or goes through.
useStream_reinitTail(l, c, a, t, rate, options, st, throws) ==
    LET stale == l.ref \in l.disposed
        l1 == IF l.ref = 0 THEN l
              ELSE [Invoke(l) EXCEPT !.disposed = StreamAnalyzer_dispose(@, l.ref)]
        cfg == [c.defaultConfig EXCEPT
                   !.sampleRate = rate,
                   !.nFft = Nullish(options, "nFft", DefaultNFft),
                   !.hopLength = Nullish(options, "hopLength", DefaultHopLength)]
        r == useStream_construct(l, cfg, st)
        l2 == [l1 EXCEPT !.tasks[t] = NoTask]
    IN  IF stale /\ throws
        THEN [life |-> [l2 EXCEPT !.last = "reinit.threw"], comp |-> c, analyzer |-> a]
        ELSE IF r.threw
        THEN [life |-> [l2 EXCEPT !.last = "reinit.threw"],
              comp |-> [c EXCEPT !.defaultConfig = cfg], analyzer |-> a]
        ELSE [life |-> [l2 EXCEPT !.made = @ + 1, !.ref = l.made + 1, !.last = "reinit"],
              comp |-> [c EXCEPT
                          !.defaultConfig = cfg, !.hasAnalyzer = TRUE,
                          !.chromaHistory = <<>>, !.rmsHistory = <<>>, !.melHistory = <<>>,
                          !.timestampHistory = <<>>, !.spectralCentroidHistory = <<>>,
                          !.spectralFlatnessHistory = <<>>, !.onsetStrengthHistory = <<>>],
              analyzer |-> r.analyzer]

\* destroy(): analyzer = null; wasmModule = null; isInitialized.value = false;
\* reset(), which finds no analyzer and empties the refs.
useStream_destroy(l, c, a) ==
    [life |-> [l EXCEPT !.ref = 0, !.wasmModule = FALSE, !.last = "destroy"],
     comp |-> useStream_reset([c EXCEPT !.isInitialized = FALSE, !.hasAnalyzer = FALSE], a).comp,
     analyzer |-> a]

\* One more call is made on the composable; queued continuations run first.
LifeCall ==
    /\ ~MicrotaskPending
    /\ life.ops < MaxLifeOps

\* init() is called.
LifeInit(t) ==
    /\ LifeCall
    /\ life.tasks[t].pc = "idle"
    /\ life' = [useStream_init(life, comp, t, "init", 0) EXCEPT !.ops = @ + 1]
    /\ UNCHANGED <<initVars, streamVars, callVars, player, proc, page>>

\* The dynamic import of '@/wasm/index' settles for task t. On success
\* wasmModule is assigned and wasmModule.init() is called; on failure the
\* catch block records the error and init() is over.
LifeImportSettles(t, ok) ==
    /\ ~MicrotaskPending
    /\ life.tasks[t].pc = "import"
    /\ IF ok
       THEN /\ init_call(t)
            /\ life' = [life EXCEPT !.wasmModule = TRUE, !.tasks[t].pc = "wasmInit"]
       ELSE /\ life' = [life EXCEPT !.error = TRUE, !.tasks[t] = AfterInit(@),
                                    !.last = "init"]
            /\ UNCHANGED initVars
    /\ UNCHANGED <<streamVars, callVars, player, proc, page>>

\* await wasmModule.init() resumes in task t: the rest of init(), or its
\* catch block when the module failed to load.
LifeInitResumes(t) ==
    /\ life.tasks[t].pc = "wasmInit"
    /\ InitSettled(t)
    /\ callers' = [callers EXCEPT ![t] = [st |-> "idle", p |-> 0]]
    /\ IF callers[t].st = "resolved" \/ PromiseState(callers[t].p) = "fulfilled"
       THEN \E r \in {useStream_initTail(life, comp, analyzer, t, ModState)} :
               /\ life' = r.life
               /\ comp' = r.comp
               /\ analyzer' = r.analyzer
       ELSE /\ life' = [life EXCEPT !.error = TRUE, !.tasks[t] = AfterInit(@),
                                    !.last = "init"]
            /\ UNCHANGED <<comp, analyzer>>
    /\ UNCHANGED <<module, initPromise, promises, factoryCalls, initCalls, lastCall,
                   song, fed, epoch, lastOp, readTs, callVars, player, proc, page>>

\* reinit(newSampleRate) is called: with no wasmModule it awaits init(),
\* otherwise it runs to its end at once.
LifeReinit(t, rate) ==
    /\ LifeCall
    /\ life.tasks[t].pc = "idle"
    /\ IF ~life.wasmModule
       THEN /\ life' = [useStream_init(life, comp, t, "reinit", rate) EXCEPT !.ops = @ + 1]
            /\ UNCHANGED <<comp, analyzer>>
       ELSE \E throws \in BOOLEAN :
            \E r \in {useStream_reinitTail([life EXCEPT !.ops = @ + 1], comp, analyzer, t,
                                           rate, LifeOptions, ModState, throws)} :
               /\ life' = r.life
               /\ comp' = r.comp
               /\ analyzer' = r.analyzer
    /\ UNCHANGED <<initVars, song, fed, epoch, lastOp, readTs, callVars, player, proc, page>>

\* reinit continues after its await init().
LifeReinitResumes(t) ==
    /\ life.tasks[t].pc = "reinitTail"
    /\ \E throws \in BOOLEAN :
       \E r \in {useStream_reinitTail(life, comp, analyzer, t, life.tasks[t].rate,
                                      LifeOptions, ModState, throws)} :
          /\ life' = r.life
          /\ comp' = r.comp
          /\ analyzer' = r.analyzer
    /\ UNCHANGED <<initVars, song, fed, epoch, lastOp, readTs, callVars, player, proc, page>>

\* process(samples) is called with the next n samples. With `analyzer`
\* pointing to a disposed instance the call either raises an exception at
\* analyzer.process or runs on the stale object.
LifeProcess(n) ==
    /\ LifeCall
    /\ Len(fed) + n <= LifeTotal
    /\ \E throws \in BOOLEAN :
          IF comp.hasAnalyzer /\ comp.isInitialized /\ life.ref \in life.disposed /\ throws
          THEN /\ life' = [Invoke(life) EXCEPT !.ops = @ + 1, !.last = "process.threw"]
               /\ UNCHANGED <<comp, analyzer>>
          ELSE \E r \in {useStream_process(comp, analyzer, SongChunk(song, Len(fed), n))} :
                  /\ life' = [(IF comp.hasAnalyzer /\ comp.isInitialized
                               THEN Invoke(life) ELSE life)
                                EXCEPT !.ops = @ + 1, !.last = "process"]
                  /\ comp' = r.comp
                  /\ analyzer' = r.analyzer
    /\ fed' = fed \o SongChunk(song, Len(fed), n)
    /\ UNCHANGED <<initVars, song, epoch, lastOp, readTs, callVars, player, proc, page>>

\* setExpectedDuration(durationSeconds) or setNormalizationGain(gain) is
\* called: if (analyzer) analyzer.setX(value).
LifeSet(which) ==
    /\ LifeCall
    /\ \E throws \in BOOLEAN :
          IF life.ref = 0 \/ (life.ref \in life.disposed /\ throws)
          THEN /\ life' = [(IF life.ref = 0 THEN life ELSE Invoke(life))
                             EXCEPT !.ops = @ + 1, !.last = which]
               /\ UNCHANGED analyzer
          ELSE /\ life' = [Invoke(life) EXCEPT !.ops = @ + 1, !.last = which]
               /\ analyzer' = IF which = "setExpectedDuration"
                              THEN StreamAnalyzer_setExpectedDuration(analyzer, LifeDuration)
                              ELSE StreamAnalyzer_setNormalizationGain(analyzer, LifeGain)
    /\ UNCHANGED <<initVars, comp, song, fed, epoch, lastOp, readTs, callVars, player, proc, page>>

\* reset() is called: if (analyzer) analyzer.reset(), then the refs are
\* emptied; an exception from a disposed instance leaves them as they were.
LifeReset ==
    /\ LifeCall
    /\ \E throws \in BOOLEAN :
          IF life.ref # 0 /\ life.ref \in life.disposed /\ throws
          THEN /\ life' = [Invoke(life) EXCEPT !.ops = @ + 1, !.last = "reset.threw"]
               /\ UNCHANGED <<comp, analyzer>>
          ELSE \E r \in {useStream_reset(comp, analyzer)} :
                  /\ life' = [(IF life.ref = 0 THEN life ELSE Invoke(life))
                                EXCEPT !.ops = @ + 1, !.last = "reset"]
                  /\ comp' = r.comp
                  /\ analyzer' = r.analyzer
    /\ UNCHANGED <<initVars, song, fed, epoch, lastOp, readTs, callVars, player, proc, page>>

\* destroy() is called, by the client or by onUnmounted.
LifeDestroy ==
    /\ LifeCall
    /\ \E r \in {useStream_destroy([life EXCEPT !.ops = @ + 1], comp, analyzer)} :
          /\ life' = r.life
          /\ comp' = r.comp
          /\ analyzer' = r.analyzer
    /\ UNCHANGED <<initVars, song, fed, epoch, lastOp, readTs, callVars, player, proc, page>>

(***************************************************************************)
(* Playback (useAudioPlayer, kept in src/scripts/copy-wasm.sh) and the     *)
(* page's watcher on isPlaying (src/src/components/AudioAnalyzer.vue).     *)
(* Time is counted in whole units of the audio clock. play() is async and  *)
(* stops at its awaits; continuations of awaits on settled promises and    *)
(* the watcher's job are microtasks, which run first-in first-out before   *)
(* any other call or event is handled.                                     *)
(***************************************************************************)
MaxPlayOps == 2      \* calls made on the player in one run
MaxSources == 3      \* buffer source nodes created in one run
MaxNow == 2          \* how far the audio clock runs
PlayDuration == 2    \* length of the loaded buffer
PlayTotal == 8       \* samples the worklets deliver in one run
SeekTimes == {0, 1}

\* The player with a buffer loaded and nothing played yet.
\*   sources    every AudioBufferSourceNode made: st is "playing" from
\*              start() until stop() or the end of the buffer; endedQueued
\*              says that its `ended` event is still to be dispatched; out
\*              is the worklet node it feeds, 0 the destination, -1 nothing
\*   worklets   every AudioWorkletNode made: active until told to stop;
\*              queued counts 'samples' messages posted and not yet handled
\*   plays      the play() calls suspended at an await
\*   micro      the microtask queue: "watch" or <<"play", k>>
\*   seen       the value of isPlaying the watcher ran with last
\*   lastStarted  the source start() was called on most recently, 0 none
\*   began      the last change of isPlaying from false to true: the offset
\*              played from, the chunks processed since, whether the watcher
\*              has reset the analyzer since
NoPlayer ==
    [ctx |-> "running", now |-> 0, hasCallback |-> TRUE, workletReady |-> FALSE,
     isPlaying |-> FALSE, isPaused |-> FALSE, currentTime |-> 0, pauseTime |-> 0,
     startTime |-> 0, sourceNode |-> 0, workletNode |-> 0,
     animationFrame |-> "null", orphanFrames |-> 0,
     sources |-> <<>>, worklets |-> <<>>, plays |-> <<>>, micro |-> <<>>,
     seen |-> FALSE, began |-> [offset |-> -1, chunks |-> 0, reset |-> FALSE],
     lastStarted |-> 0, ops |-> 0]

\* isPlaying.value = v: a change schedules the watcher's job unless it is
\* already queued.
SetIsPlaying(p, v) ==
    IF p.isPlaying = v THEN p
    ELSE [p EXCEPT !.isPlaying = v,
                   !.micro = IF \E i \in 1..Len(@) : @[i] = "watch" THEN @
                             ELSE Append(@, "watch")]

\* sourceNode.value.stop(); sourceNode.value.disconnect()
StopSource(p) ==
    IF p.sourceNode = 0 THEN p
    ELSE [p EXCEPT !.sources[p.sourceNode] =
                      [@ EXCEPT !.st = IF @ = "playing" THEN "stopped" ELSE @,
                                !.endedQueued = (p.sources[p.sourceNode].st = "playing")
                                                \/ @,
                                !.out = -1]]

\* stopProcessing()
stopProcessing(p) ==
    IF p.workletNode = 0 THEN p
    ELSE [p EXCEPT !.worklets[p.workletNode].active = FALSE, !.workletNode = 0]

\* cancelAnimationFrame(animationFrame); animationFrame = null
CancelFrame(p) == [p EXCEPT !.animationFrame = "null"]

\* stop()
player_stop(p) ==
    CancelFrame([SetIsPlaying(stopProcessing([StopSource(p) EXCEPT !.sourceNode = 0]), FALSE)
                    EXCEPT !.isPaused = FALSE, !.currentTime = 0, !.pauseTime = 0])

\* pause()
player_pause(p) ==
    IF ~p.isPlaying THEN p
    ELSE CancelFrame([SetIsPlaying(stopProcessing([StopSource(p) EXCEPT !.sourceNode = 0]),
                                   FALSE)
                        EXCEPT !.pauseTime = p.now - p.startTime, !.isPaused = TRUE])

\* updateTime()
updateTime(p) ==
    IF ~p.isPlaying THEN p
    ELSE IF p.now - p.startTime >= PlayDuration
    THEN player_stop([p EXCEPT !.currentTime = p.now - p.startTime])
    ELSE [p EXCEPT !.currentTime = p.now - p.startTime,
                   !.animationFrame = "live",
                   !.orphanFrames = IF p.animationFrame = "live" THEN @ + 1 ELSE @]

\* source.onended
onended(p) ==
    IF p.isPlaying /\ ~p.isPaused
    THEN stopProcessing([SetIsPlaying(p, FALSE) EXCEPT !.currentTime = 0])
    ELSE p

\* play(offset), from `source.onended = ...` to its end; src is the source
\* made by this call, wired to worklet node or destination already.
play_start(p, offset, src) ==
    LET q == SetIsPlaying([p EXCEPT !.sourceNode = src,
                                    !.startTime = p.now - offset,
                                    !.sources[src].st = "playing",
                                    !.sources[src].startAt = p.now,
                                    !.lastStarted = src,
                                    !.isPaused = FALSE], TRUE)
    IN  updateTime([q EXCEPT !.began = IF p.isPlaying THEN @
                                       ELSE [offset |-> offset, chunks |-> 0,
                                             reset |-> FALSE]])

\* play(offset), after await ensureWorkletReady(): on success the worklet
\* node is made, told to reset and put between source and destination; in
\* the catch block the source goes to the destination.
play_wire(p, offset, src, ok) ==
    IF ok
    THEN play_start([p EXCEPT !.workletReady = TRUE,
                              !.worklets = Append(@, [active |-> TRUE, queued |-> 0]),
                              !.workletNode = Len(p.worklets) + 1,
                              !.sources[src].out = Len(p.worklets) + 1],
                    offset, src)
    ELSE play_start([p EXCEPT !.sources[src].out = 0], offset, src)

\* play(offset), from `if (sourceNode.value)` to the next await or the end.
\* k is the position the call takes among the suspended calls.
play_body(p, offset, k) ==
    LET q == stopProcessing(StopSource(p))
        src == Len(p.sources) + 1
        made == [q EXCEPT !.sources = Append(@, [offset |-> offset, startAt |-> 0,
                                                  st |-> "created", endedQueued |-> FALSE,
                                                  out |-> -1])]
    IN  IF ~p.hasCallback
        THEN [play_start([made EXCEPT !.sources[src].out = 0], offset, src)
                EXCEPT !.plays[k] = [pc |-> "done", offset |-> offset, src |-> src]]
        ELSE IF p.workletReady
        THEN [made EXCEPT !.plays[k] = [pc |-> "micro", offset |-> offset, src |-> src],
                          !.micro = Append(@, <<"play", k>>)]
        ELSE [made EXCEPT !.plays[k] = [pc |-> "load", offset |-> offset, src |-> src]]

\* play(offset), from the call to the first await or the end.
player_play(p, offset) ==
    LET k == Len(p.plays) + 1
        q == [p EXCEPT !.plays = Append(@, [pc |-> "resume", offset |-> offset, src |-> 0])]
    IN  IF p.ctx = "suspended" THEN q ELSE play_body(q, offset, k)

\* seek(time)
player_seek(p, time) ==
    IF p.isPlaying
    THEN player_play(player_stop(p), time)
    ELSE [player_stop(p) EXCEPT !.pauseTime = time, !.currentTime = time, !.isPaused = TRUE]

\* Mutant of WatchIsPlaying: the analyzer is reset whenever playback starts.
WatchIsPlaying_anyPosition(playing, wasPlaying, currentTime) == playing /\ ~wasPlaying

\* watch(isPlaying, (playing, wasPlaying) => { if (...) resetStreamAnalyzer() }):
\* whether the callback resets the analyzer.
WatchIsPlaying(playing, wasPlaying, currentTime) ==
    playing /\ ~wasPlaying /\ currentTime = 0

\* A call on the player or an event is handled: no microtask is waiting.
PlayerTurn == player.micro = <<>>

\* A call made by the user.
PlayerCall ==
    /\ PlayerTurn
    /\ player.ops < MaxPlayOps

PlayerRest == <<initVars, streamVars, callVars, life, proc, page>>

\* play() as togglePlayback calls it, from the start of the buffer.
Play ==
    /\ PlayerCall
    /\ Len(player.sources) < MaxSources
    /\ player' = [player_play(player, 0) EXCEPT !.ops = @ + 1]
    /\ UNCHANGED PlayerRest

\* pause()
Pause ==
    /\ PlayerCall
    /\ player' = [player_pause(player) EXCEPT !.ops = @ + 1]
    /\ UNCHANGED PlayerRest

\* resume(): if (!isPaused.value) return; play(pauseTime.value)
Resume ==
    /\ PlayerCall
    /\ Len(player.sources) < MaxSources
    /\ player' = [(IF player.isPaused THEN player_play(player, player.pauseTime)
                   ELSE player) EXCEPT !.ops = @ + 1]
    /\ UNCHANGED PlayerRest

\* stop()
Stop ==
    /\ PlayerCall
    /\ player' = [player_stop(player) EXCEPT !.ops = @ + 1]
    /\ UNCHANGED PlayerRest

\* seek(time); rewind() is seek(0).
Seek(time) ==
    /\ PlayerCall
    /\ Len(player.sources) < MaxSources
    /\ player' = [player_seek(player, time) EXCEPT !.ops = @ + 1]
    /\ UNCHANGED PlayerRest

\* await ctx.resume() is over for the suspended call k.
ContextResumes(k) ==
    /\ PlayerTurn
    /\ k \in 1..Len(player.plays)
    /\ player.plays[k].pc = "resume"
    /\ player' = play_body([player EXCEPT !.ctx = "running"], player.plays[k].offset, k)
    /\ UNCHANGED PlayerRest

\* ctx.audioWorklet.addModule(...) settles for the suspended call k.
WorkletModuleSettles(k, ok) ==
    /\ PlayerTurn
    /\ k \in 1..Len(player.plays)
    /\ player.plays[k].pc = "load"
    /\ player' = play_wire([player EXCEPT !.plays[k].pc = "done"],
                           player.plays[k].offset, player.plays[k].src, ok)
    /\ UNCHANGED PlayerRest

\* The first microtask runs: a play() call goes on after its await of an
\* ensureWorkletReady() that had nothing to load.
PlayContinues ==
    /\ player.micro # <<>>
    /\ Head(player.micro) # "watch"
    /\ LET k == Head(player.micro)[2]
       IN  player' = play_wire([player EXCEPT !.micro = Tail(@), !.plays[k].pc = "done"],
                               player.plays[k].offset, player.plays[k].src, TRUE)
    /\ UNCHANGED PlayerRest

\* The first microtask runs: the watcher's job. The callback is called when
\* isPlaying differs from the value the watcher ran with last.
WatcherRuns ==
    /\ player.micro # <<>>
    /\ Head(player.micro) = "watch"
    /\ IF player.isPlaying # player.seen
          /\ WatchIsPlaying(player.isPlaying, player.seen, player.currentTime)
       THEN /\ \E r \in {useStream_reset(comp, analyzer)} :
                  /\ comp' = r.comp
                  /\ analyzer' = r.analyzer
            /\ player' = [player EXCEPT !.micro = Tail(@), !.seen = player.isPlaying,
                                        !.began.reset = TRUE]
       ELSE /\ player' = [player EXCEPT !.micro = Tail(@), !.seen = player.isPlaying]
            /\ UNCHANGED <<comp, analyzer>>
    /\ UNCHANGED <<initVars, song, fed, epoch, lastOp, readTs, callVars, life, proc, page>>

\* The `ended` event of source i, stopped earlier, is dispatched.
EndedEvent(i) ==
    /\ PlayerTurn
    /\ i \in 1..Len(player.sources)
    /\ player.sources[i].endedQueued
    /\ player' = onended([player EXCEPT !.sources[i].endedQueued = FALSE])
    /\ UNCHANGED PlayerRest

\* Source i reaches the end of the buffer and its `ended` event is dispatched.
SourceEnds(i) ==
    /\ PlayerTurn
    /\ i \in 1..Len(player.sources)
    /\ player.sources[i].st = "playing"
    /\ player.now - player.sources[i].startAt >= PlayDuration - player.sources[i].offset
    /\ player' = onended([player EXCEPT !.sources[i].st = "ended"])
    /\ UNCHANGED PlayerRest

\* An animation frame: the callback registered last, or an earlier one that
\* was never cancelled, runs updateTime.
FrameFires(latest) ==
    /\ PlayerTurn
    /\ IF latest THEN player.animationFrame = "live" ELSE player.orphanFrames > 0
    /\ player' = updateTime(IF latest THEN [player EXCEPT !.animationFrame = "fired"]
                            ELSE [player EXCEPT !.orphanFrames = @ - 1])
    /\ UNCHANGED PlayerRest

\* The audio clock advances.
Tick ==
    /\ PlayerTurn
    /\ player.now < MaxNow
    /\ player' = [player EXCEPT !.now = @ + 1]
    /\ UNCHANGED PlayerRest

\* Worklet node w is delivering: its processor is active and a playing
\* source feeds it.
Delivering(p, w) ==
    /\ p.worklets[w].active
    /\ \E i \in 1..Len(p.sources) : p.sources[i].st = "playing" /\ p.sources[i].out = w

\* The processor of worklet node w posts a 'samples' message.
WorkletPosts(w) ==
    /\ PlayerTurn
    /\ w \in 1..Len(player.worklets)
    /\ Delivering(player, w)
    /\ player.worklets[w].queued = 0
    /\ Len(fed) + ModelNFft <= PlayTotal
    /\ player' = [player EXCEPT !.worklets[w].queued = 1]
    /\ UNCHANGED PlayerRest

\* workletNode.port.onmessage for a 'samples' message of node w: the
\* callback set by the page passes the chunk to the composable's process().
WorkletDelivers(w) ==
    /\ PlayerTurn
    /\ w \in 1..Len(player.worklets)
    /\ player.worklets[w].queued > 0
    /\ Len(fed) + ModelNFft <= PlayTotal
    /\ IF player.hasCallback
       THEN /\ \E r \in {useStream_process(comp, analyzer, SongChunk(song, Len(fed), ModelNFft))} :
                  /\ comp' = r.comp
                  /\ analyzer' = r.analyzer
            /\ fed' = fed \o SongChunk(song, Len(fed), ModelNFft)
            /\ player' = [player EXCEPT !.worklets[w].queued = 0, !.began.chunks = @ + 1]
       ELSE /\ player' = [player EXCEPT !.worklets[w].queued = 0]
            /\ UNCHANGED <<comp, analyzer, fed>>
    /\ UNCHANGED <<initVars, song, epoch, lastOp, readTs, callVars, life, proc, page>>

(***************************************************************************)
(* The AudioStreamProcessor of the audio worklet                           *)
(* (src/src/docs/architecture.md): it buffers the first input channel and  *)
(* posts it to the main thread in chunks.                                  *)
(***************************************************************************)
ProcBufferSize == 4   \* this.bufferSize, 4096 in the code
ProcTotal == 9        \* samples rendered in one run
MaxProcMessages == 3  \* messages sent to the processor in one run
ProcQuanta == {0, 2, 3}   \* lengths of inputs[0][0]; 0: inputs[0] has no channel
ProcOffset == 5       \* a sample offset given with 'reset'

\* constructor(): buffer = [], bufferSize, sampleOffset = 0, isActive = true.
\*   heard   the first-channel samples received since the last 'reset'
\*   posted  the 'samples' messages posted since the last 'reset', each with
\*           the bufferSize in force when it was posted
\*   base    the offset given at the last 'reset' (0 at construction)
\*   count   samples rendered so far; sample number i has the value i
\*   last    the call handled last, for process() with the input length
AudioStreamProcessor_new ==
    [buffer |-> <<>>, bufferSize |-> ProcBufferSize, sampleOffset |-> 0, isActive |-> TRUE,
     heard |-> <<>>, posted |-> <<>>, base |-> 0, count |-> 0, msgs |-> 0,
     last |-> [op |-> "new", n |-> 0]]

NoProc == AudioStreamProcessor_new

\* while (this.buffer.length >= this.bufferSize) { chunk = splice; post; advance }
RECURSIVE ProcDrain(_)
ProcDrain(p) ==
    IF Len(p.buffer) < p.bufferSize THEN p
    ELSE ProcDrain([p EXCEPT !.buffer = SubSeq(@, p.bufferSize + 1, Len(@)),
                             !.posted = Append(@, [type |-> "samples",
                                                   samples |-> SubSeq(p.buffer, 1, p.bufferSize),
                                                   sampleOffset |-> p.sampleOffset,
                                                   bufferSize |-> p.bufferSize]),
                             !.sampleOffset = @ + p.bufferSize])

\* process(inputs, outputs, parameters) with inputChannel the first channel
\* of inputs[0], empty when inputs[0] has no channel.
AudioStreamProcessor_process(p, inputChannel) ==
    LET q == [p EXCEPT !.heard = @ \o inputChannel,
                       !.count = @ + Len(inputChannel),
                       !.last = [op |-> "process", n |-> Len(inputChannel)]]
    IN  IF Len(inputChannel) > 0 /\ p.isActive
        THEN ProcDrain([q EXCEPT !.buffer = @ \o inputChannel])
        ELSE q

\* this.port.onmessage: 'stop', 'reset' (sampleOffset || 0), 'setBufferSize'.
AudioStreamProcessor_onmessage(p, data) ==
    LET q == [p EXCEPT !.msgs = @ + 1, !.last = [op |-> data.type, n |-> 0]]
    IN  CASE data.type = "stop" -> [q EXCEPT !.isActive = FALSE]
          [] data.type = "reset" ->
                [q EXCEPT !.buffer = <<>>,
                          !.sampleOffset = OrElse(data, "sampleOffset", 0),
                          !.isActive = TRUE,
                          !.heard = <<>>, !.posted = <<>>,
                          !.base = OrElse(data, "sampleOffset", 0)]
          [] data.type = "setBufferSize" -> [q EXCEPT !.bufferSize = data.bufferSize]
          [] OTHER -> q

\* The messages sent to the processor.
ProcMessages ==
    { [type |-> "stop"], [type |-> "reset"],
      [type |-> "reset", sampleOffset |-> ProcOffset],
      [type |-> "setBufferSize", bufferSize |-> ProcBufferSize - 1],
      [type |-> "setBufferSize", bufferSize |-> ProcBufferSize + 1] }

\* The audio thread renders a quantum of n samples through the processor.
ProcProcess(n) ==
    /\ proc.count + n <= ProcTotal
    /\ proc.last # [op |-> "process", n |-> 0] \/ n > 0
    /\ proc' = AudioStreamProcessor_process(proc, [i \in 1..n |-> proc.count + i])
    /\ UNCHANGED <<initVars, streamVars, callVars, life, player, page>>

\* A message from the main thread is handled.
ProcMessage(data) ==
    /\ proc.msgs < MaxProcMessages
    /\ proc' = AudioStreamProcessor_onmessage(proc, data)
    /\ UNCHANGED <<initVars, streamVars, callVars, life, player, page>>

(***************************************************************************)
(* Loading a file on the page (src/src/components/AudioAnalyzer.vue):      *)
(* loadDemoFile, started when the page is mounted, and handleFile, started *)
(* when the user drops a file. Both are async; what each one writes is     *)
(* recorded by the load that wrote it: the demo load or the upload's       *)
(* number. Consecutive awaits with nothing but local computation between   *)
(* them are one stop.                                                      *)
(***************************************************************************)
MaxUploads == 1      \* files the user drops in one run

\* Who wrote a value: nobody yet, loadDemoFile, or handleFile for upload k.
Nothing == <<"none", 0>>
OfDemo == <<"demo", 0>>
OfFile(k) == <<"file", k>>

\* The page when it is mounted, before loadDemoFile is called.
\*   instance   which load made the StreamAnalyzer the composable holds
\*   demo       where loadDemoFile is suspended; ran: its init() passed the guard
\*   users      the handleFile calls, one per upload
NoPage ==
    [hasUserFile |-> FALSE, fileName |-> Nothing, audioBuffer |-> Nothing,
     isStreamInitialized |-> FALSE, instance |-> Nothing, expectedDuration |-> Nothing,
     callback |-> Nothing, result |-> Nothing, isLoadingDemo |-> FALSE,
     isLoadingFile |-> FALSE, isPlaying |-> FALSE,
     demo |-> [pc |-> "unmounted", ran |-> FALSE], users |-> <<>>]

\* initStreamAnalyzer(), up to its first await: whether it goes past
\* `if (isInitialized.value) return`.
page_initRuns(g) == ~g.isStreamInitialized

\* initStreamAnalyzer() is over: the call that went past the guard has made
\* the analyzer; by names the load.
page_initDone(g, ran, by) ==
    IF ran THEN [g EXCEPT !.isStreamInitialized = TRUE, !.instance = by] ELSE g

\* reinitStreamAnalyzer(rate), setExpectedDuration, setNormalizationGain and
\* setProcessCallback as both loads call them one after the other.
page_attach(g, by) ==
    [g EXCEPT !.instance = by, !.expectedDuration = by, !.callback = by]

\* if (hasUserFile.value) { isLoadingDemo.value = false; return }
loadDemoFile_checked(g) == g.hasUserFile

\* The abort branch and the catch block of loadDemoFile.
loadDemoFile_leave(g) == [g EXCEPT !.isLoadingDemo = FALSE, !.demo.pc = "done"]

\* loadDemoFile, from one await to the next. ok: whether the awaited
\* fetch, decode or reinit succeeded.
loadDemoFile_step(g, ok) ==
    CASE g.demo.pc = "unmounted" ->
            [g EXCEPT !.isLoadingDemo = TRUE, !.demo.pc = "frames"]
      [] g.demo.pc = "frames" ->
            IF loadDemoFile_checked(g) THEN loadDemoFile_leave(g)
            ELSE [g EXCEPT !.demo = [pc |-> "init", ran |-> page_initRuns(g)]]
      [] g.demo.pc = "init" ->
            LET h == page_initDone(g, g.demo.ran, OfDemo)
            IN  IF loadDemoFile_checked(h) THEN loadDemoFile_leave(h)
                ELSE [h EXCEPT !.demo.pc = "yield1"]
      [] g.demo.pc = "yield1" -> [g EXCEPT !.demo.pc = "fetch"]
      [] g.demo.pc = "fetch" ->
            IF ~ok \/ loadDemoFile_checked(g) THEN loadDemoFile_leave(g)
            ELSE [g EXCEPT !.demo.pc = "yield2"]
      [] g.demo.pc = "yield2" -> [g EXCEPT !.fileName = OfDemo, !.demo.pc = "decode"]
      [] g.demo.pc = "decode" ->
            IF ~ok THEN loadDemoFile_leave(g)
            ELSE [g EXCEPT !.audioBuffer = OfDemo, !.demo.pc = "yield3"]
      [] g.demo.pc = "yield3" ->
            IF ~ok THEN loadDemoFile_leave(g)
            ELSE [g EXCEPT !.instance = OfDemo, !.demo.pc = "reinit"]
      [] g.demo.pc = "reinit" -> [page_attach(g, OfDemo) EXCEPT !.demo.pc = "visuals"]
      [] g.demo.pc = "visuals" ->
            IF loadDemoFile_checked(g) THEN loadDemoFile_leave(g)
            ELSE [loadDemoFile_leave(g) EXCEPT !.result = OfDemo]
      [] OTHER -> g

\* handleFile(file) for upload k, from the call to the first await.
handleFile_call(g, k) ==
    [g EXCEPT !.isPlaying = FALSE, !.callback = Nothing, !.hasUserFile = TRUE,
              !.fileName = OfFile(k), !.isLoadingFile = TRUE,
              !.users = Append(@, [pc |-> "init", ran |-> page_initRuns(g)])]

\* handleFile for upload k, from one await to the next.
handleFile_step(g, k, ok) ==
    CASE g.users[k].pc = "init" ->
            [page_initDone(g, g.users[k].ran, OfFile(k)) EXCEPT !.users[k].pc = "yield1"]
      [] g.users[k].pc = "yield1" -> [g EXCEPT !.users[k].pc = "decode"]
      [] g.users[k].pc = "decode" ->
            IF ~ok THEN [g EXCEPT !.isLoadingFile = FALSE, !.users[k].pc = "done"]
            ELSE [g EXCEPT !.audioBuffer = OfFile(k), !.users[k].pc = "yield2"]
      [] g.users[k].pc = "yield2" ->
            IF ~ok THEN [g EXCEPT !.isLoadingFile = FALSE, !.users[k].pc = "done"]
            ELSE [g EXCEPT !.instance = OfFile(k), !.users[k].pc = "reinit"]
      [] g.users[k].pc = "reinit" -> [page_attach(g, OfFile(k)) EXCEPT !.users[k].pc = "visuals"]
      [] g.users[k].pc = "visuals" ->
            [g EXCEPT !.result = OfFile(k), !.isLoadingFile = FALSE, !.users[k].pc = "done"]
      [] OTHER -> g

PageRest == <<initVars, streamVars, callVars, life, player, proc>>

\* onMounted(() => loadDemoFile()) and every continuation of loadDemoFile.
LoadDemoFile(ok) ==
    /\ page.demo.pc # "done"
    /\ ok \/ page.demo.pc \in {"fetch", "decode", "yield3"}
    /\ page' = loadDemoFile_step(page, ok)
    /\ UNCHANGED PageRest

\* The user drops a file: handleFile(file).
HandleFile ==
    /\ page.demo.pc # "unmounted"
    /\ Len(page.users) < MaxUploads
    /\ page' = handleFile_call(page, Len(page.users) + 1)
    /\ UNCHANGED PageRest

\* A continuation of handleFile for upload k.
HandleFileContinues(k, ok) ==
    /\ k \in 1..Len(page.users)
    /\ page.users[k].pc # "done"
    /\ ok \/ page.users[k].pc \in {"decode", "yield2"}
    /\ page' = handleFile_step(page, k, ok)
    /\ UNCHANGED PageRest

\* The page at rest, for the runs that do not exercise it.
AppIdle ==
    /\ life = NoLife
    /\ player = NoPlayer
    /\ proc = NoProc
    /\ page = NoPage

(***************************************************************************)
(* Specifications                                                          *)
(***************************************************************************)

\* The stream side at rest, for the runs that only exercise init().
StreamIdle ==
    /\ analyzer = StreamAnalyzer_new(BaseOptions)
    /\ comp = ComposableReady(BaseOptions)
    /\ song = "silence"
    /\ fed = <<>>
    /\ epoch = FreshEpoch("direct")
    /\ lastOp = NoOp
    /\ readTs = <<>>

\* The module after one successful init().
ModuleLoaded ==
    /\ module = 1
    /\ initPromise = 1
    /\ promises = << [pc |-> "done", fid |-> 1] >>
    /\ factoryCalls = 1
    /\ callers = [c \in Callers |-> [st |-> "idle", p |-> 0]]
    /\ initCalls = 0
    /\ lastCall = NoCall

InitInit ==
    /\ module = 0
    /\ initPromise = 0
    /\ promises = <<>>
    /\ factoryCalls = 0
    /\ callers = [c \in Callers |-> [st |-> "idle", p |-> 0]]
    /\ initCalls = 0
    /\ lastCall = NoCall
    /\ StreamIdle
    /\ AppIdle
    /\ ctor = NoCtor
    /\ matcher = NoMatch

NextInit ==
    \/ \E c \in Callers : init(c)
    \/ \E i \in 1..MaxInitCalls, ok \in BOOLEAN : ImportSettles(i, ok)
    \/ \E i \in 1..MaxInitCalls, ok \in BOOLEAN : CreateSettles(i, ok)
    \/ \E c \in Callers : InitReturns(c)
    \/ \E fn \in ExportedFns : CallExport(fn)

SpecInit == InitInit /\ [][NextInit]_vars

InitStream ==
    /\ ModuleLoaded
    /\ \E options \in ModelOptions :
          /\ comp = ComposableReady(options)
          /\ analyzer = StreamAnalyzer_new(comp.defaultConfig)
    /\ song \in SongNames
    /\ fed = <<>>
    /\ \E driver \in {"direct", "composable"} : epoch = FreshEpoch(driver)
    /\ lastOp = NoOp
    /\ readTs = <<>>
    /\ AppIdle
    /\ ctor = NoCtor
    /\ matcher = NoMatch

NextStream ==
    \/ \E n \in ChunkSizes : Process(n)
    \/ \E n \in ChunkSizes, skew \in {0, ResyncSkew} : ProcessWithOffset(n, skew)
    \/ \E m \in 0..MaxRead : ReadFrames(m)
    \/ \E args \in {<<>>, <<0>>, <<ResyncSkew>>} : Reset(args)
    \/ Stats
    \/ \E n \in ChunkSizes : CompProcess(n)
    \/ CompReset

SpecStream == InitStream /\ [][NextStream]_vars

\* A long stream passed to one analyzer, with stats() polled along the way.
InitBars ==
    /\ ModuleLoaded
    /\ comp = ComposableReady(LongOptions)
    /\ analyzer = StreamAnalyzer_new(comp.defaultConfig)
    /\ song \in LongSongNames
    /\ fed = <<>>
    /\ epoch = [FreshEpoch("direct") EXCEPT !.limit = LongTotal, !.songs = LongSongNames]
    /\ lastOp = NoOp
    /\ readTs = <<>>
    /\ AppIdle
    /\ ctor = NoCtor
    /\ matcher = NoMatch

NextBars ==
    \/ \E n \in LongChunkSizes : Process(n)
    \/ Stats
    \/ Reset(<<>>)

SpecBars == InitBars /\ [][NextBars]_vars

\* A stream longer than the composable's history, passed through the
\* composable one sample per call after an opening call of 0, 1 or 3 samples,
\* and followed by reset() and another stream.
InitHour ==
    /\ ModuleLoaded
    /\ comp = ComposableReady(LongOptions)
    /\ analyzer = StreamAnalyzer_new(comp.defaultConfig)
    /\ song \in HourSongNames
    /\ fed = <<>>
    /\ epoch = [FreshEpoch("composable") EXCEPT !.limit = HourTotal, !.songs = HourSongNames]
    /\ lastOp = NoOp
    /\ readTs = <<>>
    /\ AppIdle
    /\ ctor = NoCtor
    /\ matcher = NoMatch

NextHour ==
    \/ \E n \in HourChunkSizes : CompProcess(n)
    \/ (fed = <<>> /\ CompProcess(3))
    \/ (Len(fed) = epoch.limit /\ CompReset)

SpecHour == InitHour /\ [][NextHour]_vars

\* One pattern detection.
InitPattern ==
    /\ ModuleLoaded
    /\ StreamIdle
    /\ AppIdle
    /\ ctor = NoCtor
    /\ \E inp \in MatcherInputs :
          matcher = [NoMatch EXCEPT !.barChords = inp[1], !.keyRoot = inp[2]]

NextPattern == Detect

SpecPattern == InitPattern /\ [][NextPattern]_vars

\* One construction attempt with the module loaded.
InitConstruct ==
    /\ ModuleLoaded
    /\ StreamIdle
    /\ AppIdle
    /\ \E config \in ConstructConfigs : ctor = [NoCtor EXCEPT !.config = config]
    /\ matcher = NoMatch

NextConstruct == Construct

SpecConstruct == InitConstruct /\ [][NextConstruct]_vars

\* The composable from its creation: init, reinit, process, the setters,
\* reset and destroy in any order, with the module loading underneath.
InitLife ==
    /\ module = 0
    /\ initPromise = 0
    /\ promises = <<>>
    /\ factoryCalls = 0
    /\ callers = [c \in Callers |-> [st |-> "idle", p |-> 0]]
    /\ initCalls = 0
    /\ lastCall = NoCall
    /\ comp = ComposableNew(LifeOptions)
    /\ analyzer = NoAnalyzer
    /\ song = "morse"
    /\ fed = <<>>
    /\ epoch = FreshEpoch("composable")
    /\ lastOp = NoOp
    /\ readTs = <<>>
    /\ life = NoLife
    /\ player = NoPlayer
    /\ proc = NoProc
    /\ page = NoPage
    /\ ctor = NoCtor
    /\ matcher = NoMatch

NextLife ==
    \/ \E t \in Callers : LifeInit(t)
    \/ \E t \in Callers, ok \in BOOLEAN : LifeImportSettles(t, ok)
    \/ \E i \in 1..MaxInitCalls, ok \in BOOLEAN : (~MicrotaskPending /\ ImportSettles(i, ok))
    \/ \E i \in 1..MaxInitCalls, ok \in BOOLEAN : (~MicrotaskPending /\ CreateSettles(i, ok))
    \/ \E t \in Callers : LifeInitResumes(t)
    \/ \E t \in Callers, rate \in LifeRates : LifeReinit(t, rate)
    \/ \E t \in Callers : LifeReinitResumes(t)
    \/ \E n \in LifeChunkSizes : LifeProcess(n)
    \/ \E which \in {"setExpectedDuration", "setNormalizationGain"} : LifeSet(which)
    \/ LifeReset
    \/ LifeDestroy

SpecLife == InitLife /\ [][NextLife]_vars

\* Playback of a loaded buffer, with or without a process callback set and
\* with the audio context suspended or running at the first play.
InitPlay ==
    /\ ModuleLoaded
    /\ comp = ComposableReady(BaseOptions)
    /\ analyzer = StreamAnalyzer_new(comp.defaultConfig)
    /\ song = "morse"
    /\ fed = <<>>
    /\ epoch = FreshEpoch("composable")
    /\ lastOp = NoOp
    /\ readTs = <<>>
    /\ life = NoLife
    /\ \E cb \in BOOLEAN, st \in {"suspended", "running"} :
          player = [NoPlayer EXCEPT !.hasCallback = cb, !.ctx = st]
    /\ proc = NoProc
    /\ page = NoPage
    /\ ctor = NoCtor
    /\ matcher = NoMatch

NextPlay ==
    \/ Play
    \/ Pause
    \/ Resume
    \/ Stop
    \/ \E time \in SeekTimes : Seek(time)
    \/ \E k \in 1..MaxSources : ContextResumes(k)
    \/ \E k \in 1..MaxSources, ok \in BOOLEAN : WorkletModuleSettles(k, ok)
    \/ PlayContinues
    \/ WatcherRuns
    \/ \E i \in 1..MaxSources : EndedEvent(i)
    \/ \E i \in 1..MaxSources : SourceEnds(i)
    \/ \E latest \in BOOLEAN : FrameFires(latest)
    \/ Tick
    \/ \E w \in 1..MaxSources : WorkletPosts(w)
    \/ \E w \in 1..MaxSources : WorkletDelivers(w)

SpecPlay == InitPlay /\ [][NextPlay]_vars

\* One AudioStreamProcessor from its construction.
InitProc ==
    /\ ModuleLoaded
    /\ StreamIdle
    /\ life = NoLife
    /\ player = NoPlayer
    /\ proc = AudioStreamProcessor_new
    /\ page = NoPage
    /\ ctor = NoCtor
    /\ matcher = NoMatch

NextProc ==
    \/ \E n \in ProcQuanta : ProcProcess(n)
    \/ \E data \in ProcMessages : ProcMessage(data)

SpecProc == InitProc /\ [][NextProc]_vars

\* The page from mounting: the demo load and the user's uploads.
InitPage ==
    /\ ModuleLoaded
    /\ StreamIdle
    /\ life = NoLife
    /\ player = NoPlayer
    /\ proc = NoProc
    /\ page = NoPage
    /\ ctor = NoCtor
    /\ matcher = NoMatch

NextPage ==
    \/ \E ok \in BOOLEAN : LoadDemoFile(ok)
    \/ HandleFile
    \/ \E k \in 1..MaxUploads, ok \in BOOLEAN : HandleFileContinues(k, ok)

SpecPage == InitPage /\ [][NextPage]_vars

(***************************************************************************)
(* Properties                                                              *)
(***************************************************************************)

\* C1: however many init() calls are made, one after another or overlapping,
\* createModule is invoked at most once and one promise is made; a call made
\* while initialization is in flight waits for that same promise, and a call
\* made after it completed returns at once with the module left in place.
C1_InitCreatesModuleOnce ==
    /\ factoryCalls <= 1
    /\ Len(promises) <= 1
    /\ module \in {0, 1}
    /\ \A c \in Callers :
          /\ callers[c].st = "awaiting" =>
                (callers[c].p = initPromise /\ callers[c].p = 1)
          /\ (callers[c].st = "resolved" /\ callers[c].p = 0) => module = 1

\* Three calls: the first started the initialization, caller 2 called while it
\* was in flight, and a call after completion returned without a promise.
C1_Witness ==
    /\ initCalls = 3
    /\ module = 1
    /\ factoryCalls = 1
    /\ callers[1] = [st |-> "resolved", p |-> 0]
    /\ callers[2] = [st |-> "resolved", p |-> 1]

\* C2: readFrames(maxFrames) returns min(maxFrames, availableFrames()) frames,
\* the oldest pending ones in production order and nothing else (no padding),
\* removes exactly those from the queue and leaves the rest queued in order.
C2_ReadFramesDequeuesOldest ==
    [][ lastOp'.op = "readFrames" =>
          LET n == Min2(lastOp'.arg, StreamAnalyzer_availableFrames(analyzer))
              b == lastOp'.batch
          IN  /\ b.nFrames = n
              /\ b.timestamps = [i \in 1..n |-> analyzer.pending[i].timestamp]
              /\ b.rmsEnergy = [i \in 1..n |-> analyzer.pending[i].rmsEnergy]
              /\ b.chordRoot = [i \in 1..n |-> analyzer.pending[i].chordRoot]
              /\ Len(b.onsetStrength) = n
              /\ Len(b.mel) = n * analyzer.cfg.nMels
              /\ Len(b.chroma) = n * nChroma
              /\ analyzer'.pending = SubSeq(analyzer.pending, n + 1, Len(analyzer.pending))
              /\ [analyzer' EXCEPT !.pending = <<>>] = [analyzer EXCEPT !.pending = <<>>]
      ]_vars

\* readFrames(1) returned the oldest frame and left two queued.
C2_Witness ==
    /\ lastOp.op = "readFrames"
    /\ lastOp.arg = 1
    /\ lastOp.batch.nFrames = 1
    /\ lastOp.batch.timestamps = <<0>>
    /\ Len(analyzer.pending) = 2

\* C3: in every reachable state, readFrames(availableFrames()) followed at
\* once by availableFrames() gives 0; the composable's process(), which reads
\* that way, leaves nothing pending.
C3_ReadAllLeavesNoneAvailable ==
    /\ LET n == StreamAnalyzer_availableFrames(analyzer)
           r == StreamAnalyzer_readFrames(analyzer, n)
       IN  /\ r.result.nFrames = n
           /\ StreamAnalyzer_availableFrames(r.state) = 0
    /\ lastOp.op = "comp.process" => StreamAnalyzer_availableFrames(analyzer) = 0

\* The composable's process() just read two frames at once and none is left.
C3_Witness ==
    /\ lastOp.op = "comp.process"
    /\ comp.timestampHistory # <<>>
    /\ Len(comp.timestampHistory[Len(comp.timestampHistory)]) = 2
    /\ StreamAnalyzer_availableFrames(analyzer) = 0

\* The run that passes the whole stream to a fresh analyzer in one process().
RunAllAtOnce == StreamAnalyzer_process(StreamAnalyzer_new(comp.defaultConfig), fed)

\* C4: on a freshly constructed analyzer, whatever the partition of the
\* stream into process() chunks, the total frame count and the estimate are
\* those of passing the stream in one chunk.
C4_ChunkingIndependent ==
    (epoch.kind = "fresh" /\ epoch.clean) =>
        /\ StreamAnalyzer_frameCount(analyzer) = StreamAnalyzer_frameCount(RunAllAtOnce)
        /\ StreamAnalyzer_stats(analyzer).result.totalFrames
              = StreamAnalyzer_stats(RunAllAtOnce).result.totalFrames
        /\ StreamAnalyzer_stats(analyzer).result.estimate
              = StreamAnalyzer_stats(RunAllAtOnce).result.estimate

\* The stream came in at least two chunks (two frames were read before the
\* last process() produced another) and the estimate has been updated.
C4_Witness ==
    /\ epoch.kind = "fresh" /\ epoch.clean
    /\ lastOp.op = "process"
    /\ Len(fed) >= ModelNFft + 2 * ModelHop
    /\ Len(readTs) = 2 /\ Len(analyzer.pending) = 1
    /\ analyzer.est.keyConfidence > 0

\* Number of windows a stream of n samples holds.
WindowsIn(n, cfg) == IF n < cfg.nFft THEN 0 ELSE (n - cfg.nFft) \div cfg.hopLength + 1

\* C5: when the stream is passed by process() alone, a window is cut whenever
\* nFft unconsumed samples are buffered: the k-th window (from 0) is samples
\* k*hopLength .. k*hopLength + nFft - 1 of the stream, the sample-offset
\* counter has advanced by hopLength per window, and process() returns with
\* every producible window produced (fewer than nFft samples left unconsumed).
C5_WindowsAtHopPositions ==
    epoch.clean =>
        LET cfg == analyzer.cfg
            W == analyzer.produced
        IN  /\ Len(W) = WindowsIn(Len(fed), cfg)
            /\ analyzer.frameCount = Len(W)
            /\ \A k \in 1..Len(W) :
                  /\ W[k].start = epoch.base + (k - 1) * cfg.hopLength
                  /\ W[k].window = SubSeq(fed, (k - 1) * cfg.hopLength + 1,
                                          (k - 1) * cfg.hopLength + cfg.nFft)
            /\ analyzer.sampleOffset = epoch.base + Len(W) * cfg.hopLength
            /\ analyzer.buf = SubSeq(fed, Len(W) * cfg.hopLength + 1, Len(fed))
            /\ Len(analyzer.buf) < cfg.nFft

\* Two windows were cut from an aperiodic signal and nFft - 1 samples wait.
C5_Witness ==
    /\ epoch.clean
    /\ song = "morse"
    /\ Len(analyzer.produced) = 2
    /\ Len(analyzer.buf) = analyzer.cfg.nFft - 1

\* C6: over any sequence of process and readFrames calls, the timestamps of
\* the frames returned are strictly increasing in the order returned.
C6_TimestampsIncrease ==
    epoch.clean => \A i, j \in 1..Len(readTs) : i < j => readTs[i] < readTs[j]

\* Three frames were returned by two readFrames calls, the last a batch of two.
C6_Witness ==
    /\ epoch.clean
    /\ lastOp.op = "readFrames"
    /\ lastOp.batch.nFrames = 2
    /\ Len(readTs) = 3

\* The same stream passed to an analyzer built without throttling.
RunUnthrottled ==
    StreamAnalyzer_process(
        StreamAnalyzer_new([comp.defaultConfig EXCEPT !["emitEveryNFrames"] = 1]), fed)

\* C7: with emitEveryNFrames = N, every completed frame is counted and fed to
\* the estimator and every N-th one is enqueued: the frames pending plus the
\* frames already read number floor(frameCount / N), and the frame count and
\* the estimate are those of the unthrottled analyzer.
C7_ThrottleEmitsEveryNth ==
    LET N == comp.defaultConfig.emitEveryNFrames
    IN  /\ analyzer.cfg.emitEveryNFrames = N
        /\ StreamAnalyzer_availableFrames(analyzer) + Len(readTs)
              = StreamAnalyzer_frameCount(analyzer) \div N
        /\ (epoch.clean /\ epoch.base = 0) =>
              /\ StreamAnalyzer_frameCount(analyzer) = StreamAnalyzer_frameCount(RunUnthrottled)
              /\ StreamAnalyzer_stats(analyzer).result.estimate
                    = StreamAnalyzer_stats(RunUnthrottled).result.estimate

\* N = 2, three frames completed, none read: one frame is available.
C7_Witness ==
    /\ comp.defaultConfig.emitEveryNFrames = 2
    /\ StreamAnalyzer_frameCount(analyzer) = 3
    /\ readTs = <<>>
    /\ StreamAnalyzer_availableFrames(analyzer) = 1
    /\ analyzer.est.usedFrames = 3

C9_UpdatedIsSingleStepFlag ==
    /\ [](StreamAnalyzer_stats(analyzer).result.estimate.updated
            = (/\ analyzer.frameCount > 0
               /\ EstimateFields(StreamAnalyzer_stats(analyzer).result.estimate)
                     # EstimateFields(analyzer.prevEst)))
    /\ [][ lastOp'.op = "stats" =>
             /\ analyzer' = analyzer
             /\ StreamAnalyzer_stats(analyzer').result = StreamAnalyzer_stats(analyzer).result
         ]_vars

\* stats() was called when an earlier frame had changed the estimate and the
\* latest frame had not: the flag it reports is FALSE.
C9_Witness ==
    /\ lastOp.op = "stats"
    /\ analyzer.frameCount >= 2
    /\ EstimateFields(analyzer.est) # EstimateFields(EmptyEstimate)
    /\ ~StreamAnalyzer_stats(analyzer).result.estimate.updated

\* C10: a guarded export or the StreamAnalyzer constructor called while the
\* module is null, be it before any init() or while one is in flight, throws,
\* and the call changes nothing of the module state.
C10_UninitializedCallThrows ==
    [][ lastCall' # lastCall =>
          /\ ~isInitialized(module) => lastCall'.threw
          /\ module' = module
          /\ initPromise' = initPromise
          /\ promises' = promises
          /\ factoryCalls' = factoryCalls
      ]_vars

\* new StreamAnalyzer(config) threw while createModule was still pending.
C10_Witness ==
    /\ lastCall.fn = "StreamAnalyzer"
    /\ lastCall.threw
    /\ lastCall.before = [module |-> 0, initPromise |-> 1]
    /\ promises[1].pc = "create"

\* C11: with nFft and hopLength resolved to the values given or to their
\* defaults 2048 and 512, new StreamAnalyzer(config) throws and yields no
\* analyzer whenever sampleRate <= 0, hopLength <= 0 or hopLength >= nFft.
C11_InvalidConfigRejected ==
    ctor.done =>
        LET nFft == IF "nFft" \in DOMAIN ctor.config THEN ctor.config.nFft ELSE 2048
            hopLength == IF "hopLength" \in DOMAIN ctor.config
                         THEN ctor.config.hopLength ELSE 512
        IN  (ctor.config.sampleRate <= 0 \/ hopLength <= 0 \/ hopLength >= nFft)
                => (ctor.threw /\ ctor.analyzer = NoAnalyzer)

\* A record with a valid sample rate and a 256-sample window that omits
\* hopLength was rejected: the default hop of 512 is not below the window.
C11_Witness ==
    /\ ctor.done
    /\ ctor.config = [sampleRate |-> 44100, nFft |-> 256]
    /\ ctor.threw

\* C12: a process() call with a zero-length sample array, made directly or
\* through the composable, leaves the analyzer as it was: frame count, total
\* samples, pending frames, overlap buffer and estimate are unchanged.
C12_EmptyProcessIsNoOp ==
    [][ (lastOp'.op \in {"process", "comp.process"} /\ fed' = fed) =>
            /\ analyzer' = analyzer
            /\ StreamAnalyzer_stats(analyzer').result = StreamAnalyzer_stats(analyzer).result
      ]_vars

\* Every frame had been read and a partial window was buffered when process()
\* was called last; it queued nothing, so the chunk it was given was empty.
C12_Witness ==
    /\ lastOp.op = "process"
    /\ analyzer.cfg.emitEveryNFrames = 1
    /\ analyzer.frameCount >= 2
    /\ Len(fed) = analyzer.cfg.nFft + (analyzer.frameCount - 1) * analyzer.cfg.hopLength
    /\ analyzer.pending = <<>>
    /\ analyzer.buf # <<>>

\* C13: on an analyzer that has been given no samples since it was
\* constructed or reset, availableFrames() is 0, readFrames(n) is an empty
\* batch for every n, stats() reports totalFrames = 0, totalSamples = 0,
\* bpm = 0, keyConfidence = 0 and empty chord and bar-chord histories, and
\* the composable's estimate and streamingData hold their initial values.
C13_AccessorsDefaultBeforeProcess ==
    fed = <<>> =>
        /\ StreamAnalyzer_availableFrames(analyzer) = 0
        /\ StreamAnalyzer_frameCount(analyzer) = 0
        /\ \A n \in 0..MaxRead :
              /\ StreamAnalyzer_readFrames(analyzer, n).result
                    = FrameBufferOf(<<>>, analyzer.cfg.nMels)
              /\ StreamAnalyzer_readFrames(analyzer, n).result.nFrames = 0
              /\ StreamAnalyzer_readFrames(analyzer, n).result.timestamps = <<>>
              /\ StreamAnalyzer_readFrames(analyzer, n).result.mel = <<>>
        /\ lastOp.op = "readFrames" => lastOp.batch.nFrames = 0
        /\ LET st == StreamAnalyzer_stats(analyzer).result
           IN  /\ st.totalFrames = 0
               /\ st.totalSamples = 0
               /\ st.durationSeconds = 0
               /\ st.estimate.bpm = 0
               /\ st.estimate.keyConfidence = 0
               /\ st.estimate.chordProgression = <<>>
               /\ st.estimate.barChordProgression = <<>>
               /\ ~st.estimate.updated
        /\ comp.estimate = InitialStreamEstimate
        /\ comp.streamingData = EmptyStreamingData(comp.defaultConfig.nMels)

\* readFrames was called on an analyzer just reset, before any process().
C13_Witness ==
    /\ epoch.kind = "reset"
    /\ fed = <<>>
    /\ lastOp.op = "readFrames"
    /\ lastOp.arg = MaxRead
    /\ lastOp.batch.nFrames = 0

\* C14: processWithOffset(samples, off) puts the stream position of the
\* chunk's first sample at off, whether or not off agrees with the internal
\* counter, and leaves the overlap buffer, the windows cut and the frames
\* counted and queued exactly as process(samples) would.
C14_OffsetLeavesOverlapAlone ==
    [][ lastOp'.op = "processWithOffset" =>
          LET samples == SubSeq(fed', Len(fed) + 1, Len(fed'))
              off == epoch.base + Len(fed) + lastOp'.arg
              p == StreamAnalyzer_process(analyzer, samples)
          IN  /\ analyzer'.buf = p.buf
              /\ analyzer'.frameCount = p.frameCount
              /\ analyzer'.totalSamples = p.totalSamples
              /\ Len(analyzer'.pending) = Len(p.pending)
              /\ Len(analyzer'.produced) = Len(p.produced)
              /\ \A k \in 1..Len(p.produced) :
                    analyzer'.produced[k].window = p.produced[k].window
              /\ analyzer'.sampleOffset + Len(analyzer'.buf) = off + Len(samples)
      ]_vars

\* processWithOffset was called with an offset ahead of the internal counter
\* while samples were buffered; the window it completed starts at the
\* re-synchronized position and samples remain buffered.
C14_Witness ==
    /\ lastOp.op = "processWithOffset"
    /\ lastOp.arg = ResyncSkew
    /\ Len(analyzer.produced) >= 2
    /\ analyzer.produced[Len(analyzer.produced)].start
          = epoch.base + (Len(analyzer.produced) - 1) * analyzer.cfg.hopLength + ResyncSkew
    /\ analyzer.produced[1].start = epoch.base
    /\ Len(analyzer.buf) = analyzer.cfg.nFft - 1

\* The estimate stats() returns for the analyzer as it is.
PolledEstimate == StreamAnalyzer_stats(analyzer).result.estimate

\* C15 as stated: while bpm is 0, currentBar is -1 and the bar-chord history
\* is empty; bpm is 0 until the first BPM update interval has elapsed; and
\* once bpm > 0 the bar duration is 4 * 60 / bpm seconds.
C15_BarDurationOnceTempoKnown ==
    LET e == PolledEstimate
        sr == analyzer.cfg.sampleRate
    IN  /\ e.bpm = 0 => (e.currentBar = -1 /\ e.barChordProgression = <<>>)
        /\ e.accumulatedSeconds < BpmUpdateIntervalSec * sr => e.bpm = 0
        /\ e.bpm > 0 =>
              /\ e.barDuration * e.bpm <= 4 * 60 * 100 * sr
              /\ 4 * 60 * 100 * sr < (e.barDuration + 1) * e.bpm

\* C15, amended: while bpm is 0, currentBar is -1 and the bar-chord history
\* is empty; bpm is 0 until the first BPM update interval has elapsed; and
\* once bpm > 0 with a confidence above the bar tracker's minimum threshold,
\* the bar duration is 4 * 60 / bpm seconds.
C15_BarDurationOnceTempoConfident ==
    LET e == PolledEstimate
        sr == analyzer.cfg.sampleRate
    IN  /\ e.bpm = 0 => (e.currentBar = -1 /\ e.barChordProgression = <<>>)
        /\ e.accumulatedSeconds < BpmUpdateIntervalSec * sr => e.bpm = 0
        /\ (e.bpm > 0 /\ e.bpmConfidence > MinBarConfidence) =>
              /\ e.barDuration * e.bpm <= 4 * 60 * 100 * sr
              /\ 4 * 60 * 100 * sr < (e.barDuration + 1) * e.bpm
              /\ e.currentBar >= 0

\* stats() was polled after a second tempo estimate, made with confidence,
\* while bars were being tracked with the duration that tempo gives.
C15_Witness ==
    /\ lastOp.op = "stats"
    /\ PolledEstimate.accumulatedSeconds >= 2 * BpmUpdateIntervalSec * analyzer.cfg.sampleRate
    /\ PolledEstimate.bpm > 0
    /\ PolledEstimate.bpmConfidence > MinBarConfidence
    /\ PolledEstimate.bpmConfidence < 100
    /\ PolledEstimate.barDuration > 0
    /\ Len(PolledEstimate.barChordProgression) >= 2

\* q is p followed by zero or more entries.
IsPrefix(p, q) == Len(p) <= Len(q) /\ SubSeq(q, 1, Len(p)) = p

RecentWindow ==
    LET q == matcher.barChords
        n == Min2(Len(q), 8)
    IN  [i \in 1..n |-> q[Len(q) - n + i]]

\* The scale degree of a chord root relative to the matcher's key root.
DegreeInKey(root) == CHOOSE d \in 0..11 : (matcher.keyRoot + d) % 12 = root

TemplateIds == 1..Len(PROGRESSION_PATTERNS)

\* The slide offsets (from 0) at which a 4-step template fits in the window.
SlideOffsets == 0..(Len(RecentWindow) - 4)

MajorMinor == {0, 1}

\* The step score in halves when a major-versus-minor difference on the
\* right degree earns 0.5; -1 where the chord is on the right degree and its
\* quality differs in some other way.
StepScoreHalfForMajorMinor(chord, expected) ==
    IF DegreeInKey(chord.root) # expected[1] THEN 0
    ELSE IF chord.quality = expected[2] THEN 2
    ELSE IF chord.quality \in MajorMinor /\ expected[2] \in MajorMinor THEN 1
    ELSE -1

\* The step score in halves when a major-versus-minor difference on the
\* right degree earns 1, and any other quality difference 0.5.
StepScoreFullForMajorMinor(chord, expected) ==
    IF DegreeInKey(chord.root) # expected[1] THEN 0
    ELSE IF chord.quality = expected[2] THEN 2
    ELSE IF chord.quality \in MajorMinor /\ expected[2] \in MajorMinor THEN 2
    ELSE 1

\* C17 as stated: at every alignment whose steps all fall under the three
\* stated cases, the confidence is the sum over the steps of 1 for degree and
\* quality both matching, 0.5 for the right degree with a major-versus-minor
\* difference, and 0 for a wrong degree, divided by the pattern length.
C17_MajorMinorMismatchScoresHalf ==
    matcher.done /\ Len(matcher.barChords) >= 4 =>
        \A pi \in TemplateIds : \A k \in SlideOffsets :
            LET pat == PROGRESSION_PATTERNS[pi].pattern
                sc == [i \in 1..4 |-> StepScoreHalfForMajorMinor(RecentWindow[k + i], pat[i])]
            IN  (\A i \in 1..4 : sc[i] >= 0) =>
                    matcher.scores[pi][k + 1] * 4 = SumSeq(sc) * 500

\* C17 (amended): at every alignment of every template, each step scores 1
\* when the degree matches and the quality matches or differs only as major
\* versus minor, 0.5 when the degree matches and the quality differs in any
\* other way, and 0 when the degree does not match; the confidence is the sum
\* of the step scores divided by the pattern length.
C17_MajorMinorMismatchScoresFull ==
    matcher.done /\ Len(matcher.barChords) >= 4 =>
        /\ Len(matcher.scores) = Len(PROGRESSION_PATTERNS)
        /\ \A pi \in TemplateIds :
              /\ Len(matcher.scores[pi]) = Len(RecentWindow) - 3
              /\ \A k \in SlideOffsets :
                    LET pat == PROGRESSION_PATTERNS[pi].pattern
                        sc == [i \in 1..4 |-> StepScoreFullForMajorMinor(RecentWindow[k + i], pat[i])]
                    IN  matcher.scores[pi][k + 1] * 4 = SumSeq(sc) * 500

\* A detection over the first template in G with its steps played minor for
\* major, diminished, as written and off the degree: 1 + 0.5 + 1 + 0 over 4.
C17_Witness ==
    /\ matcher.done
    /\ matcher.keyRoot = 7
    /\ matcher.barChords = TemplateChords(1, 7, <<"swap", "dim", "exact", "wrong">>)
    /\ matcher.scores[1][1] = 625

\* The confidence of template pi at slide offset k of the window.
WindowConfidence(pi, k) ==
    SumSeq([i \in 1..4 |-> StepScoreFullForMajorMinor(RecentWindow[k + i],
                                PROGRESSION_PATTERNS[pi].pattern[i])]) * 125

\* The highest confidence over all templates and offsets (0 when none fits).
BestWindowConfidence ==
    LET cs == { WindowConfidence(pi, k) : pi \in TemplateIds, k \in SlideOffsets } \cup {0}
    IN  CHOOSE c \in cs : \A d \in cs : d <= c

\* C18: only the newest 8 bar-chords count; nothing is reported with fewer
\* than 4 bar-chords or when no alignment reaches 0.5; otherwise the highest
\* confidence over all templates and offsets is reported, under the name of
\* the first template in priority order that attains it.
C18_BestAlignmentFirstTemplateWins ==
    matcher.done =>
        IF Len(matcher.barChords) < 4 \/ BestWindowConfidence < 500
        THEN matcher.result = NoPattern
        ELSE LET first == CHOOSE pi \in TemplateIds :
                              /\ \E k \in SlideOffsets : WindowConfidence(pi, k) = BestWindowConfidence
                              /\ \A pj \in 1..(pi - 1) : \A k \in SlideOffsets :
                                     WindowConfidence(pj, k) < BestWindowConfidence
             IN  /\ matcher.result.confidence = BestWindowConfidence
                 /\ matcher.result.key = PROGRESSION_PATTERNS[first].key

\* A detection over ten bars whose window holds canon and then royalRoad in
\* full: both score 1 and the earlier template in priority order is reported.
C18_Witness ==
    /\ matcher.done
    /\ Len(matcher.barChords) = 10
    /\ matcher.scores[3][1] = 1000
    /\ matcher.scores[1][5] = 1000
    /\ matcher.result.key = "royalRoad"

\* The royalRoad progression in key k: degrees 0, 7, 9, 5 as major, major,
\* minor, major.
RoyalRoadIn(k) ==
    << [root |-> k % 12, quality |-> 0], [root |-> (k + 7) % 12, quality |-> 0],
       [root |-> (k + 9) % 12, quality |-> 1], [root |-> (k + 5) % 12, quality |-> 0] >>

\* C19: for every key root, a history that is exactly royalRoad in that key,
\* 4 bars or repeated to 8, is reported as royalRoad with confidence >= 0.99.
C19_RoyalRoadRoundTrip ==
    \A k \in 0..11 :
        /\ matcher.done
        /\ matcher.keyRoot = k
        /\ matcher.barChords \in {RoyalRoadIn(k), RoyalRoadIn(k) \o RoyalRoadIn(k)}
        => /\ matcher.result.key = "royalRoad"
           /\ matcher.result.confidence >= 990

\* royalRoad in B, twice over, has been detected.
C19_Witness ==
    /\ matcher.done
    /\ matcher.keyRoot = 11
    /\ matcher.barChords = RoyalRoadIn(11) \o RoyalRoadIn(11)
    /\ matcher.result.key = "royalRoad"
    /\ matcher.result.degrees = "I-V-vim-IV"

\* ---------------------------------------------------------------------
\* Bounded history (SpecHour)

\* The composable's seven history arrays.
HistoryArrays(c) ==
    << c.chromaHistory, c.rmsHistory, c.melHistory, c.timestampHistory,
       c.spectralCentroidHistory, c.spectralFlatnessHistory, c.onsetStrengthHistory >>

\* C20: however long the stream, the analyzer's history of evidence stays
\* within its cap and each of the composable's seven history arrays holds at
\* most 300 chunks; a chunk added to a full array takes the place of the
\* oldest one, the others moving up in order.
C20_HistoriesStayWithinCap ==
    /\ [](/\ Len(analyzer.hist) <= HistoryCapFrames
          /\ Len(analyzer.buf) < analyzer.cfg.nFft
          /\ Len(analyzer.pending) = 0
          /\ \A j \in 1..7 : Len(HistoryArrays(comp)[j]) <= 300)
    /\ [][\A j \in 1..7 :
            LET h == HistoryArrays(comp)[j]
                g == HistoryArrays(comp')[j]
            IN  lastOp'.op = "comp.process" /\ Len(readTs') > Len(readTs) =>
                    IF Len(h) < 300
                    THEN Len(g) = Len(h) + 1 /\ SubSeq(g, 1, Len(h)) = h
                    ELSE Len(g) = 300 /\ SubSeq(g, 1, 299) = Tail(h)]_vars

\* The arrays are full, the first chunk passed is no longer among the
\* timestamps kept, and the newest one is.
C20_Witness ==
    /\ Len(comp.timestampHistory) = 300
    /\ Len(readTs) > 300
    /\ comp.timestampHistory[1][1] > readTs[1]
    /\ comp.timestampHistory[300][Len(comp.timestampHistory[300])] = readTs[Len(readTs)]
    /\ Len(analyzer.hist) = HistoryCapFrames

\* ---------------------------------------------------------------------
\* Recovery of init() after a failure (SpecInit)

\* C28: a failed init() leaves the module uninitialized, and an init() call
\* made after the stored attempt has failed starts a new attempt instead of
\* handing back the failed one.
C28_FailedInitStartsNewAttempt ==
    /\ []((\A i \in 1..Len(promises) : promises[i].pc = "failed") => module = 0)
    /\ [][(/\ initCalls' = initCalls + 1
           /\ module = 0
           /\ initPromise # 0
           /\ PromiseState(initPromise) = "rejected")
          => (/\ Len(promises') = Len(promises) + 1
              /\ initPromise' = Len(promises'))]_vars

\* ---------------------------------------------------------------------
\* The composable's estimate after process() (SpecStream)

\* The exposed estimate without the running clock.
ShownEstimate(e) == [e EXCEPT !.accumulatedSeconds = 0]

\* The estimate the composable exposes for the analyzer's estimate pe.
ExposedFor(pe) == updateEstimate(comp, [pe EXCEPT !.updated = TRUE]).estimate

\* C24: when a process() call of the composable changes the analyzer's
\* estimate, the estimate the composable exposes when the call returns is
\* the one that corresponds to the analyzer's estimate at that moment.
C24_NoEstimateChangeLost ==
    [][(/\ lastOp'.op = "comp.process"
        /\ EstimateFields(analyzer'.est) # EstimateFields(analyzer.est))
       => ShownEstimate(comp'.estimate)
            = ShownEstimate(ExposedFor(StreamAnalyzer_stats(analyzer').result.estimate))]_vars

\* ---------------------------------------------------------------------
\* The composable's lifecycle (SpecLife)

\* C21: whatever the order of init, reinit, process, the setters, reset and
\* destroy, and whether or not loading or construction fails, no method is
\* invoked on a StreamAnalyzer instance after its dispose().
C21_NoCallAfterDispose == life.misused = {}

\* Frames held in the retained history chunks.
RetainedFrames(c) == SumSeq([i \in 1..Len(c.timestampHistory) |-> Len(c.timestampHistory[i])])

\* C29: the exposed data describes the current analyzer only: the seven
\* history arrays are equally long, streamingData counts exactly the frames
\* of the retained chunks, with timestamps and rms of that length, and right
\* after a reinit both streamingData and estimate are those of a fresh analyzer.
C29_ExposedDataIsOfCurrentAnalyzer ==
    /\ \A j \in 1..7 : Len(HistoryArrays(comp)[j]) = Len(comp.timestampHistory)
    /\ comp.streamingData.nFrames = RetainedFrames(comp)
    /\ Len(comp.streamingData.timestamps) = comp.streamingData.nFrames
    /\ Len(comp.streamingData.rms) = comp.streamingData.nFrames
    /\ life.last = "reinit" =>
          /\ comp.streamingData = EmptyStreamingData(comp.defaultConfig.nMels)
          /\ comp.estimate = InitialStreamEstimate

\* C30: once destroy() has run, every StreamAnalyzer the composable created
\* has been released with dispose().
C30_AllDisposedAfterDestroy ==
    life.last = "destroy" => \A i \in 1..life.made : i \in life.disposed

\* ---------------------------------------------------------------------
\* Playback (SpecPlay)

\* C22: the `ended` event of a source that was stopped or replaced leaves a
\* newer playback alone: while the source started last is still playing,
\* isPlaying and currentTime keep their values and the current worklet node
\* is not stopped.
C22_StaleEndedLeavesPlaybackAlone ==
    [][\A i \in 1..Len(player.sources) :
          (/\ player.sources[i].endedQueued
           /\ ~player'.sources[i].endedQueued
           /\ player.lastStarted # i
           /\ player.sources[player.lastStarted].st = "playing")
          => /\ player'.isPlaying = player.isPlaying
             /\ player'.currentTime = player.currentTime
             /\ player'.workletNode = player.workletNode
             /\ player'.worklets = player.worklets]_vars

\* C23: at any time at most one started source is playing and at most one
\* worklet node is delivering chunks.
C23_OneSourceOneWorklet ==
    /\ Cardinality({i \in 1..Len(player.sources) : player.sources[i].st = "playing"}) <= 1
    /\ Cardinality({w \in 1..Len(player.worklets) : Delivering(player, w)}) <= 1

\* The analyzer and the composable's data are as reset() leaves them.
DataIsReset == [comp |-> comp, analyzer |-> analyzer] = useStream_reset(comp, analyzer)

\* C26: when playback goes from not playing to playing at position 0 the
\* analyzer and the composable's data are reset, before any chunk of the new
\* playback is processed; playback that starts elsewhere resets nothing.
C26_ResetOnPlayFromStart ==
    /\ (/\ player.isPlaying
        /\ player.micro = <<>>
        /\ player.began.offset = 0
        /\ player.began.chunks = 0) => DataIsReset
    /\ (player.began.offset = 0 /\ player.began.chunks > 0) => player.began.reset
    /\ player.began.reset => player.began.offset = 0

\* Playback was started again from position 0 with data of an earlier
\* playback accumulated, the watcher has reset the analyzer, and a chunk of
\* the new playback has been processed.
C26_Witness ==
    /\ player.isPlaying
    /\ player.began.offset = 0
    /\ player.began.reset
    /\ player.began.chunks > 0
    /\ Len(fed) > Len(analyzer.buf) + analyzer.totalSamples

\* ---------------------------------------------------------------------
\* The worklet's processor (SpecProc)

\* The samples of the messages posted, in posting order.
PostedSamples == Flatten([k \in 1..Len(proc.posted) |-> proc.posted[k].samples])

\* What the claim says of the messages posted since the last 'reset': each
\* chunk holds exactly bufferSize samples, together they are the first
\* samples received, and each carries the offset at 'reset' plus the length
\* of the chunks before it.
ChunksAreThePrefix ==
    /\ \A k \in 1..Len(proc.posted) :
          /\ Len(proc.posted[k].samples) = proc.posted[k].bufferSize
          /\ proc.posted[k].sampleOffset
                = proc.base + SumSeq([j \in 1..(k - 1) |-> Len(proc.posted[j].samples)])
    /\ Len(PostedSamples) <= Len(proc.heard)
    /\ PostedSamples = SubSeq(proc.heard, 1, Len(PostedSamples))

\* C27: while active the processor posts chunks of exactly bufferSize samples
\* which, in posting order, are the first samples received since the last
\* 'reset', each with the offset given at 'reset' plus the samples posted
\* before it; at most bufferSize - 1 samples remain buffered after every
\* process() call.
C27_ChunksExactAndBufferShortAfterEveryCall ==
    /\ ChunksAreThePrefix
    /\ (proc.isActive /\ proc.last.op = "process") => Len(proc.buffer) <= proc.bufferSize - 1

\* What the processor does keep: the chunks are the prefix, and at most
\* bufferSize - 1 samples remain buffered after each process() call that
\* received input, the only calls that run the sending loop.
ChunksExactAndBufferShortAfterInput ==
    /\ ChunksAreThePrefix
    /\ (proc.isActive /\ proc.last.op = "process" /\ proc.last.n > 0)
          => Len(proc.buffer) <= proc.bufferSize - 1

\* After a 'reset' with an offset two chunks were posted and a sample is
\* left in the buffer.
ChunksPostedAfterOffsetReset ==
    /\ proc.base = ProcOffset
    /\ Len(proc.posted) >= 2
    /\ proc.isActive
    /\ proc.last.op = "process"
    /\ proc.buffer # <<>>

\* ---------------------------------------------------------------------
\* Loading files (SpecPage)

\* A value written by handleFile for one of the user's uploads.
OfUpload(v) == v[1] = "file"

====
